---- MODULE Spec2Model ----
(***************************************************************************)
(* Model of the instance registry of claude-multi (src/src/templates.ts,   *)
(* duplicated in src/src/config.ts): a JSON document config.json under     *)
(* ~/.claude-multi, read and rewritten whole by every registry operation.  *)
(*                                                                         *)
(* The backing file is modelled as its text, a sequence of JSON tokens, so *)
(* that JSON.stringify and JSON.parse are real conversions: the file may   *)
(* hold text that does not parse, text that parses to something that is    *)
(* not a registry, or a registry written by hand in another layout.        *)
(***************************************************************************)
EXTENDS Integers, Sequences, FiniteSets, TLC

VARIABLES disk, last, started, procs, events, fs, cmd, heap

vars == <<disk, last, started, procs, events, fs, cmd, heap>>

-----------------------------------------------------------------------------
(* Bounds *)

\* how many of AllNames the operations draw their names from
NumNames == 2

\* how many of AllVariants an instance's other fields are drawn from
NumVariants == 1

\* longest instance list of a registry file present at the start
MaxInitLen == 1

\* longest instance list handed to saveConfig directly
MaxSaveLen == 1

\* the number of applications of provider templates in a run
MaxApplications == 2

\* how many invocations of the tool run at the same time
NumProcs == 2

AllNames == <<"work", "Work", "glm", "minimax", "kimi">>

AllVariants ==
  << [configDir |-> "/home/u/.claude-x", binaryPath |-> "/home/u/.local/bin/claude-x",
      createdAt |-> "2025-01-01T00:00:00.000Z"],
     [configDir |-> "/srv/profiles/y", binaryPath |-> "/usr/local/bin/claude-y",
      createdAt |-> "2025-06-01T00:00:00.000Z"],
     [configDir |-> "/tmp/z", binaryPath |-> "/opt/bin/claude-z",
      createdAt |-> "2025-12-01T00:00:00.000Z"] >>

Names == {AllNames[i] : i \in 1..NumNames}

Variants == {AllVariants[i] : i \in 1..NumVariants}

-----------------------------------------------------------------------------
(* JavaScript values: strings, booleans, null, undefined, arrays and       *)
(* objects.  An object is the sequence of its <<key, value>> properties in *)
(* insertion order.                                                        *)

Str(s) == [k |-> "str", v |-> <<s>>]

Arr(elems) == [k |-> "arr", v |-> elems]

Obj(props) == [k |-> "obj", v |-> props]

\* true and false: b is "true" or "false"
Bool(b) == [k |-> "bool", v |-> <<b>>]

Null == [k |-> "null", v |-> <<>>]

Undefined == [k |-> "undefined", v |-> <<>>]

\* o[key]: the property's value, undefined when o has no such property or
\* is a primitive
PropGet(o, key) ==
  IF o.k = "obj" /\ \E i \in 1..Len(o.v) : o.v[i][1] = key
  THEN LET i == CHOOSE j \in 1..Len(o.v) : o.v[j][1] = key IN o.v[i][2]
  ELSE Undefined

\* o[key] = val on an object: an existing property keeps its position
PropSet(o, key, val) ==
  IF \E i \in 1..Len(o.v) : o.v[i][1] = key
  THEN Obj([i \in 1..Len(o.v) |->
              IF o.v[i][1] = key THEN <<key, val>> ELSE o.v[i]])
  ELSE Obj(Append(o.v, <<key, val>>))

\* "Work" and "work" taken for the same name
Lower(s) == IF s = "Work" THEN "work" ELSE s

\* a comparison of names that ignores case
StrictEqIgnoringCase(a, b) ==
  a.k = b.k /\ a.k \in {"str", "null", "undefined"}
    /\ (IF a.k = "str" THEN Lower(a.v[1]) = Lower(b.v[1]) ELSE a.v = b.v)

\* a === b on the values of the model
StrictEq(a, b) == a.k = b.k /\ a.k \in {"str", "null", "undefined"} /\ a.v = b.v

-----------------------------------------------------------------------------
(* JSON text as a sequence of tokens: punctuation, string literals, the    *)
(* literal null, and the white space JSON.stringify(value, null, 2) puts   *)
(* between them.                                                           *)

P(c) == <<"p", c>>

S(s) == <<"s", s>>

Lit(l) == <<"l", l>>

\* a line break followed by 2 * lvl spaces
Indents == <<"nl+0", "nl+2", "nl+4", "nl+6", "nl+8", "nl+10">>

NL(lvl) == <<"w", Indents[lvl + 1]>>

\* the single space after a colon
SP == <<"w", "sp">>

\* JSON.stringify leaves out the properties whose value is undefined
Serializable(props) == SelectSeq(props, LAMBDA kv : kv[2].k # "undefined")

RECURSIVE Ser(_, _), SerElems(_, _, _), SerProps(_, _, _)

\* JSON.stringify(v, null, 2) of a value nested lvl levels deep
Ser(v, lvl) ==
  CASE v.k = "str" -> <<S(v.v[1])>>
    [] v.k = "bool" -> <<Lit(v.v[1])>>
    [] v.k \in {"null", "undefined"} -> <<Lit("null")>>
    [] v.k = "arr" ->
         IF v.v = <<>> THEN <<P("["), P("]")>>
         ELSE <<P("[")>> \o SerElems(v.v, 1, lvl + 1) \o <<NL(lvl), P("]")>>
    [] v.k = "obj" ->
         IF Serializable(v.v) = <<>> THEN <<P("{"), P("}")>>
         ELSE <<P("{")>> \o SerProps(Serializable(v.v), 1, lvl + 1)
                \o <<NL(lvl), P("}")>>

SerElems(elems, i, lvl) ==
  IF i > Len(elems) THEN <<>>
  ELSE <<NL(lvl)>> \o Ser(elems[i], lvl)
       \o (IF i < Len(elems) THEN <<P(",")>> ELSE <<>>)
       \o SerElems(elems, i + 1, lvl)

SerProps(props, i, lvl) ==
  IF i > Len(props) THEN <<>>
  ELSE <<NL(lvl), S(props[i][1]), P(":"), SP>> \o Ser(props[i][2], lvl)
       \o (IF i < Len(props) THEN <<P(",")>> ELSE <<>>)
       \o SerProps(props, i + 1, lvl)

JSONstringify(v) == Ser(v, 0)

\* the result of a failed parse
ParseFail == [val |-> Undefined, ok |-> FALSE, next |-> 0]

RECURSIVE ParseValue(_, _), ParseElems(_, _, _), ParseProps(_, _, _)

\* parse one value of the token sequence t starting at token i
ParseValue(t, i) ==
  IF i > Len(t) THEN ParseFail
  ELSE IF t[i][1] = "s" THEN [val |-> Str(t[i][2]), ok |-> TRUE, next |-> i + 1]
  ELSE IF t[i] = Lit("null") THEN [val |-> Null, ok |-> TRUE, next |-> i + 1]
  ELSE IF t[i] \in {Lit("true"), Lit("false")}
       THEN [val |-> Bool(t[i][2]), ok |-> TRUE, next |-> i + 1]
  ELSE IF t[i] = P("[") THEN
         IF i + 1 <= Len(t) /\ t[i + 1] = P("]")
         THEN [val |-> Arr(<<>>), ok |-> TRUE, next |-> i + 2]
         ELSE ParseElems(t, i + 1, <<>>)
  ELSE IF t[i] = P("{") THEN
         IF i + 1 <= Len(t) /\ t[i + 1] = P("}")
         THEN [val |-> Obj(<<>>), ok |-> TRUE, next |-> i + 2]
         ELSE ParseProps(t, i + 1, Obj(<<>>))
  ELSE ParseFail

ParseElems(t, i, acc) ==
  LET e == ParseValue(t, i) IN
  IF ~e.ok \/ e.next > Len(t) THEN ParseFail
  ELSE IF t[e.next] = P(",") THEN ParseElems(t, e.next + 1, Append(acc, e.val))
  ELSE IF t[e.next] = P("]")
       THEN [val |-> Arr(Append(acc, e.val)), ok |-> TRUE, next |-> e.next + 1]
  ELSE ParseFail

ParseProps(t, i, acc) ==
  IF i + 1 > Len(t) \/ t[i][1] # "s" \/ t[i + 1] # P(":") THEN ParseFail
  ELSE LET e == ParseValue(t, i + 2) IN
       IF ~e.ok \/ e.next > Len(t) THEN ParseFail
       ELSE IF t[e.next] = P(",")
            THEN ParseProps(t, e.next + 1, PropSet(acc, t[i][2], e.val))
       ELSE IF t[e.next] = P("}")
            THEN [val |-> PropSet(acc, t[i][2], e.val), ok |-> TRUE,
                  next |-> e.next + 1]
       ELSE ParseFail

\* JSON.parse(text): white space is insignificant, the whole text must be
\* one value; ok = FALSE stands for the SyntaxError it throws
JSONparse(text) ==
  LET t == SelectSeq(text, LAMBDA tok : tok[1] # "w")
      r == ParseValue(t, 1)
  IN IF r.ok /\ r.next = Len(t) + 1 THEN [val |-> r.val, ok |-> TRUE]
     ELSE [val |-> Undefined, ok |-> FALSE]

-----------------------------------------------------------------------------
(* Objects with identity.  The heap is the sequence of the objects made so *)
(* far; an object's properties hold primitives or references to objects,   *)
(* and a reference names the position of its object.                       *)

Ref(a) == [k |-> "ref", v |-> <<ToString(a)>>]

\* the position a reference names
AddrOf(h, ref) == CHOOSE a \in 1..Len(h) : ToString(a) = ref.v[1]

\* the object a reference names
At(h, ref) == h[AddrOf(h, ref)]

RECURSIVE Deref(_, _)

\* the value reached from val, its objects written out
Deref(h, val) ==
  IF val.k = "ref"
  THEN Obj([i \in 1..Len(At(h, val).v) |->
              <<At(h, val).v[i][1], Deref(h, At(h, val).v[i][2])>>])
  ELSE val

RECURSIVE Reach(_, _)

\* the positions of the objects reached from val
Reach(h, val) ==
  IF val.k = "ref"
  THEN {AddrOf(h, val)}
       \cup UNION {Reach(h, At(h, val).v[i][2]) : i \in 1..Len(At(h, val).v)}
  ELSE {}

RECURSIVE Alloc(_, _), AllocProps(_, _)

\* new objects for a value that has none yet, as an object literal or
\* JSON.parse makes them
Alloc(h, val) ==
  IF val.k # "obj" THEN [heap |-> h, val |-> val]
  ELSE LET p == AllocProps(h, val.v)
       IN [heap |-> Append(p.heap, Obj(p.props)), val |-> Ref(Len(p.heap) + 1)]

AllocProps(h, props) ==
  IF props = <<>> THEN [heap |-> h, props |-> <<>>]
  ELSE LET first == Alloc(h, props[1][2])
           rest == AllocProps(first.heap, Tail(props))
       IN [heap |-> rest.heap, props |-> << <<props[1][1], first.val>> >> \o rest.props]

-----------------------------------------------------------------------------
(* The provider templates *)

GlmEnv ==
  Obj(<< <<"ANTHROPIC_AUTH_TOKEN", Str("")>>,
         <<"ANTHROPIC_BASE_URL", Str("https://api.z.ai/api/anthropic")>>,
         <<"API_TIMEOUT_MS", Str("3000000")>>,
         <<"ANTHROPIC_DEFAULT_HAIKU_MODEL", Str("glm-4.5-air")>>,
         <<"ANTHROPIC_DEFAULT_SONNET_MODEL", Str("glm-4.6")>>,
         <<"ANTHROPIC_DEFAULT_OPUS_MODEL", Str("glm-4.6")>>,
         <<"ANTHROPIC_MODEL", Str("glm-4.6")>>,
         <<"ANTHROPIC_SMALL_FAST_MODEL", Str("glm-4.6-air")>>,
         <<"ENABLE_THINKING", Str("true")>>,
         <<"REASONING_EFFORT", Str("high")>>,
         <<"MAX_THINKING_TOKENS", Str("8000")>>,
         <<"ENABLE_STREAMING", Str("true")>>,
         <<"MAX_OUTPUT_TOKENS", Str("64000")>> >>)

MinimaxEnv ==
  Obj(<< <<"ANTHROPIC_AUTH_TOKEN", Str("")>>,
         <<"ANTHROPIC_BASE_URL", Str("https://api.minimax.io/anthropic")>>,
         <<"API_TIMEOUT_MS", Str("3000000")>>,
         <<"CLAUDE_CODE_DISABLE_NONESSENTIAL_TRAFFIC", Str("1")>>,
         <<"ANTHROPIC_MODEL", Str("MiniMax-M2")>>,
         <<"ANTHROPIC_SMALL_FAST_MODEL", Str("MiniMax-M2")>>,
         <<"ANTHROPIC_DEFAULT_SONNET_MODEL", Str("MiniMax-M2")>>,
         <<"ANTHROPIC_DEFAULT_OPUS_MODEL", Str("MiniMax-M2")>>,
         <<"ANTHROPIC_DEFAULT_HAIKU_MODEL", Str("MiniMax-M2")>> >>)

\* PROVIDER_TEMPLATES as the module's object literal writes it
PROVIDER_TEMPLATES ==
  Obj(<< <<"glm",
           Obj(<< <<"name", Str("glm")>>,
                  <<"displayName", Str("GLM")>>,
                  <<"description", Str("GLM-4.5 and GLM-4.6 models via z.ai")>>,
                  <<"settings",
                    Obj(<< <<"env", GlmEnv>>,
                           <<"includeCoAuthoredBy", Bool("false")>>,
                           <<"alwaysThinkingEnabled", Bool("false")>> >>)>> >>)>>,
         <<"minimax",
           Obj(<< <<"name", Str("minimax")>>,
                  <<"displayName", Str("MiniMax")>>,
                  <<"description", Str("MiniMax-M2 model via minimax.io")>>,
                  <<"settings",
                    Obj(<< <<"env", MinimaxEnv>>,
                           <<"includeCoAuthoredBy", Bool("false")>>,
                           <<"alwaysThinkingEnabled", Bool("true")>> >>)>> >>)>> >>)

\* the objects of PROVIDER_TEMPLATES once the module is loaded, and the
\* reference the constant holds
Bundled == Alloc(<<>>, PROVIDER_TEMPLATES)

\* an application that writes the key into the settings of the template
applyProviderTemplateInPlace(h, template, apiKey) ==
  LET settings == PropGet(At(h, template), "settings")
      env == PropGet(At(h, settings), "env")
  IN [heap |-> [h EXCEPT ![AddrOf(h, env)] =
                           PropSet(@, "ANTHROPIC_AUTH_TOKEN", Str(apiKey))],
      ret |-> settings]

\* applyProviderTemplate(template, apiKey): the settings go through
\* JSON.stringify and JSON.parse, and the key is set in the env of the copy
applyProviderTemplate(h, template, apiKey) ==
  LET text == JSONstringify(Deref(h, PropGet(At(h, template), "settings")))
      settings == Alloc(h, JSONparse(text).val)
      env == PropGet(At(settings.heap, settings.val), "env")
  IN [heap |-> [settings.heap EXCEPT ![AddrOf(settings.heap, env)] =
                                       PropSet(@, "ANTHROPIC_AUTH_TOKEN", Str(apiKey))],
      ret |-> settings.val]

-----------------------------------------------------------------------------
(* The backing store: the directory CONFIG_DIR and the file CONFIG_FILE in *)
(* it.  d.text is the file's content and is <<>> while d.exists is FALSE.  *)

\* no command or copy is running
NoCmd == [op |-> "none", pc |-> "idle"]

NoDisk == [text |-> <<>>, dir |-> FALSE, exists |-> FALSE]

ensureConfigDir(d) == IF ~d.dir THEN [d EXCEPT !.dir = TRUE] ELSE d

\* the registry loadConfig synthesizes when there is no file
defaultConfig == Obj(<< <<"instances", Arr(<<>>)>>, <<"version", Str("1.0.0")>> >>)

\* a save that writes the instances and leaves out the version
saveConfigInstancesOnly(d, config) ==
  [ensureConfigDir(d) EXCEPT
     !.exists = TRUE,
     !.text = JSONstringify(Obj(<< <<"instances", PropGet(config, "instances")>> >>))]

\* a save that keeps the records the file has and the registry to save
\* has not
saveConfigMerging(d, config) ==
  LET old == IF d.exists /\ JSONparse(d.text).ok
                  /\ PropGet(JSONparse(d.text).val, "instances").k = "arr"
             THEN PropGet(JSONparse(d.text).val, "instances").v ELSE <<>>
      new == PropGet(config, "instances").v
      kept == SelectSeq(old, LAMBDA i :
                \A j \in 1..Len(new) : PropGet(new[j], "name") # PropGet(i, "name"))
  IN [ensureConfigDir(d) EXCEPT
        !.exists = TRUE,
        !.text = JSONstringify(PropSet(config, "instances", Arr(kept \o new)))]

saveConfig(d, config) ==
  [ensureConfigDir(d) EXCEPT !.exists = TRUE, !.text = JSONstringify(config)]

(* The outcome of one call: the store afterwards, the value returned, the  *)
(* error thrown ("" for none) and the numbers of readFile and writeFile    *)
(* calls on CONFIG_FILE it made.                                           *)
Outcome(d, ret, err, reads, writes) ==
  [disk |-> d, ret |-> ret, err |-> err, reads |-> reads, writes |-> writes]

\* a load that returns the default registry without writing it
loadConfigNoPersist(d) ==
  LET d1 == ensureConfigDir(d) IN
  IF ~d1.exists
  THEN Outcome(d1, defaultConfig, "", 0, 0)
  ELSE LET p == JSONparse(d1.text) IN
       IF p.ok THEN Outcome(d1, p.val, "", 1, 0)
       ELSE Outcome(d1, Undefined, "SyntaxError", 1, 0)

\* a load that replaces a file it cannot parse by the default registry
loadConfigRecover(d) ==
  LET d1 == ensureConfigDir(d) IN
  IF ~d1.exists
  THEN Outcome(saveConfig(d1, defaultConfig), defaultConfig, "", 0, 1)
  ELSE LET p == JSONparse(d1.text) IN
       IF p.ok THEN Outcome(d1, p.val, "", 1, 0)
       ELSE Outcome(saveConfig(d1, defaultConfig), defaultConfig, "", 1, 1)

loadConfig(d) ==
  LET d1 == ensureConfigDir(d) IN
  IF ~d1.exists
  THEN Outcome(saveConfig(d1, defaultConfig), defaultConfig, "", 0, 1)
  ELSE LET p == JSONparse(d1.text) IN
       IF p.ok THEN Outcome(d1, p.val, "", 1, 0)
       ELSE Outcome(d1, Undefined, "SyntaxError", 1, 0)

\* config.instances.find / findIndex throw a TypeError unless
\* config.instances is an array
HasInstances(config) == PropGet(config, "instances").k = "arr"

\* the index findIndex((i) => i.name === name) returns, 0 standing for -1
FindIndexByName(instances, name) ==
  IF \E i \in 1..Len(instances) : StrictEq(PropGet(instances[i], "name"), name)
  THEN CHOOSE i \in 1..Len(instances) :
         /\ StrictEq(PropGet(instances[i], "name"), name)
         /\ \A j \in 1..(i - 1) : ~StrictEq(PropGet(instances[j], "name"), name)
  ELSE 0

\* a removal that moves the last element into the gap
SpliceSwap(instances, index) ==
  [i \in 1..(Len(instances) - 1) |->
     IF i = index THEN instances[Len(instances)] ELSE instances[i]]

\* instances.splice(index, 1)
Splice(instances, index) ==
  [i \in 1..(Len(instances) - 1) |->
     IF i < index THEN instances[i] ELSE instances[i + 1]]

\* an add without the check for an existing name
addInstanceUnchecked(d, instance) ==
  LET l == loadConfig(d) IN
  IF l.err # "" THEN l
  ELSE IF ~HasInstances(l.ret) THEN [l EXCEPT !.ret = Undefined, !.err = "TypeError"]
  ELSE LET instances == PropGet(l.ret, "instances").v
           config == PropSet(l.ret, "instances", Arr(Append(instances, instance)))
       IN Outcome(saveConfig(l.disk, config), Undefined, "", l.reads, l.writes + 1)

\* an add that rewrites the file before it throws on an existing name
addInstanceSavesFirst(d, instance) ==
  LET l == loadConfig(d) IN
  IF l.err # "" THEN l
  ELSE IF ~HasInstances(l.ret) THEN [l EXCEPT !.ret = Undefined, !.err = "TypeError"]
  ELSE LET instances == PropGet(l.ret, "instances").v IN
       IF FindIndexByName(instances, PropGet(instance, "name")) # 0
       THEN Outcome(saveConfig(l.disk, l.ret), Undefined, "already exists",
                    l.reads, l.writes + 1)
       ELSE LET config == PropSet(l.ret, "instances", Arr(Append(instances, instance)))
            IN Outcome(saveConfig(l.disk, config), Undefined, "", l.reads, l.writes + 1)

\* an add that builds a new registry of the current version around the list
addInstanceRebuilds(d, instance) ==
  LET l == loadConfig(d) IN
  IF l.err # "" THEN l
  ELSE IF ~HasInstances(l.ret) THEN [l EXCEPT !.ret = Undefined, !.err = "TypeError"]
  ELSE LET instances == PropGet(l.ret, "instances").v IN
       IF FindIndexByName(instances, PropGet(instance, "name")) # 0
       THEN [l EXCEPT !.ret = Undefined, !.err = "already exists"]
       ELSE LET config == Obj(<< <<"instances", Arr(Append(instances, instance))>>,
                                 <<"version", Str("1.0.0")>> >>)
            IN Outcome(saveConfig(l.disk, config), Undefined, "", l.reads, l.writes + 1)

addInstance(d, instance) ==
  LET l == loadConfig(d) IN
  IF l.err # "" THEN l
  ELSE IF ~HasInstances(l.ret) THEN [l EXCEPT !.ret = Undefined, !.err = "TypeError"]
  ELSE LET instances == PropGet(l.ret, "instances").v IN
       IF FindIndexByName(instances, PropGet(instance, "name")) # 0
       THEN [l EXCEPT !.ret = Undefined, !.err = "already exists"]
       ELSE LET config == PropSet(l.ret, "instances", Arr(Append(instances, instance)))
            IN Outcome(saveConfig(l.disk, config), Undefined, "", l.reads, l.writes + 1)

\* a remove that saves the registry also when it found nothing
removeInstanceAlwaysSaves(d, name) ==
  LET l == loadConfig(d) IN
  IF l.err # "" THEN l
  ELSE IF ~HasInstances(l.ret) THEN [l EXCEPT !.ret = Undefined, !.err = "TypeError"]
  ELSE LET instances == PropGet(l.ret, "instances").v
           index == FindIndexByName(instances, name)
       IN IF index = 0
          THEN Outcome(saveConfig(l.disk, l.ret), Null, "", l.reads, l.writes + 1)
          ELSE LET config == PropSet(l.ret, "instances", Arr(Splice(instances, index)))
               IN Outcome(saveConfig(l.disk, config), instances[index], "",
                          l.reads, l.writes + 1)

removeInstance(d, name) ==
  LET l == loadConfig(d) IN
  IF l.err # "" THEN l
  ELSE IF ~HasInstances(l.ret) THEN [l EXCEPT !.ret = Undefined, !.err = "TypeError"]
  ELSE LET instances == PropGet(l.ret, "instances").v
           index == FindIndexByName(instances, name)
       IN IF index = 0 THEN [l EXCEPT !.ret = Null]
          ELSE LET config == PropSet(l.ret, "instances", Arr(Splice(instances, index)))
               IN Outcome(saveConfig(l.disk, config), instances[index], "",
                          l.reads, l.writes + 1)

\* a get that writes the registry back in its own layout
getInstanceNormalizes(d, name) ==
  LET l == loadConfig(d) IN
  IF l.err # "" THEN l
  ELSE IF ~HasInstances(l.ret) THEN [l EXCEPT !.ret = Undefined, !.err = "TypeError"]
  ELSE LET instances == PropGet(l.ret, "instances").v
           index == FindIndexByName(instances, name)
       IN Outcome(saveConfig(l.disk, l.ret),
                  IF index = 0 THEN Null ELSE instances[index], "",
                  l.reads, l.writes + 1)

getInstance(d, name) ==
  LET l == loadConfig(d) IN
  IF l.err # "" THEN l
  ELSE IF ~HasInstances(l.ret) THEN [l EXCEPT !.ret = Undefined, !.err = "TypeError"]
  ELSE LET instances == PropGet(l.ret, "instances").v
           index == FindIndexByName(instances, name)
       IN [l EXCEPT !.ret = IF index = 0 THEN Null ELSE instances[index]]

listInstances(d) ==
  LET l == loadConfig(d) IN
  IF l.err # "" THEN l ELSE [l EXCEPT !.ret = PropGet(l.ret, "instances")]

-----------------------------------------------------------------------------
(* Inputs *)

\* the Instance the callers build: name, configDir, binaryPath, createdAt
Instance(n, var) ==
  Obj(<< <<"name", Str(n)>>, <<"configDir", Str(var.configDir)>>,
         <<"binaryPath", Str(var.binaryPath)>>, <<"createdAt", Str(var.createdAt)>> >>)

Instances == {Instance(n, var) : n \in Names, var \in Variants}

\* a Config value
Config(instances, version) ==
  Obj(<< <<"instances", Arr(instances)>>, <<"version", Str(version)>> >>)

SeqsUpTo(set, n) == UNION {[1..m -> set] : m \in 0..n}

Versions == {"1.0.0", "0.9.0"}

\* the text with its white space removed: a file written by hand or by
\* another tool
Compact(text) == SelectSeq(text, LAMBDA tok : tok[1] # "w")

OnDisk(text) == [text |-> text, dir |-> TRUE, exists |-> TRUE]

\* an instance record carrying a property the tool does not know
Annotated(inst) == PropSet(inst, "note", Str("keep"))

(* The states the backing store can be in when the tool starts, each with  *)
(* its kind: no file, an empty registry, a registry with records, a file   *)
(* that is not JSON, and JSON that is not a registry.                      *)
InitialStores ==
  {[disk |-> NoDisk, kind |-> "absent"],
   [disk |-> ensureConfigDir(NoDisk), kind |-> "absent"],
   [disk |-> OnDisk(JSONstringify(defaultConfig)), kind |-> "empty"],
   [disk |-> OnDisk(Compact(JSONstringify(defaultConfig))), kind |-> "empty"]}
  \cup
  {[disk |-> OnDisk(JSONstringify(Config(is, "1.0.0"))), kind |-> "registry"] :
     is \in SeqsUpTo(Instances, MaxInitLen) \ {<<>>}}
  \cup
  {[disk |-> OnDisk(text), kind |-> "registry"] : text \in
     {\* two records of one name, edited in by hand, around another record
      JSONstringify(Config(<<Instance(AllNames[1], AllVariants[1]),
                             Instance(AllNames[2], AllVariants[1]),
                             Instance(AllNames[1], AllVariants[2])>>, "1.0.0")),
      \* key order and layout of another writer, an older version string
      Compact(JSONstringify(Obj(<< <<"version", Str("0.9.0")>>,
         <<"instances", Arr(<<Instance(AllNames[1], AllVariants[2])>>)>> >>))),
      \* the layout of another writer, two records
      Compact(JSONstringify(Config(<<Instance(AllNames[2], AllVariants[1]),
                                     Instance(AllNames[1], AllVariants[1])>>, "1.0.0"))),
      \* a record with an extra property, a registry with an extra property
      JSONstringify(PropSet(Config(<<Annotated(Instance(AllNames[1], AllVariants[1])),
                                     Instance(AllNames[2], AllVariants[2])>>, "1.0.0"),
                            "theme", Str("dark"))),
      \* no version property
      JSONstringify(Obj(<< <<"instances",
                             Arr(<<Instance(AllNames[1], AllVariants[1])>>)>> >>))}}
  \cup
  {[disk |-> OnDisk(text), kind |-> "malformed"] : text \in
     {\* an empty file
      <<>>,
      \* a write cut short
      SubSeq(JSONstringify(Config(<<Instance(AllNames[1], AllVariants[1])>>, "1.0.0")),
             1, 12),
      \* a trailing comma
      <<P("{"), S("instances"), P(":"), P("["), P("]"), P(","), P("}")>>,
      \* text after the document
      JSONstringify(defaultConfig) \o <<P("}")>>}}
  \cup
  {[disk |-> OnDisk(text), kind |-> "other"] : text \in
     {<<P("{"), P("}")>>, <<P("["), P("]")>>, <<S("1.0.0")>>, <<Lit("null")>>,
      JSONstringify(Obj(<< <<"instances", Str("none")>> >>))}}

-----------------------------------------------------------------------------
(* The state: the backing store, a record of the last call (its name, its  *)
(* argument, its outcome and the store it started from) and the kind of    *)
(* store the run started with.                                             *)

Init ==
  \E s \in InitialStores :
    /\ disk = s.disk
    /\ started = s.kind
    /\ last = [ret |-> Undefined, op |-> "none", err |-> "", reads |-> 0,
               writes |-> 0, arg |-> Undefined, pre |-> s.disk]
    /\ procs = <<>>
    /\ events = <<>>
    /\ fs = <<>>
    /\ cmd = NoCmd
    /\ heap = <<>>

\* one call run to completion
Call(op, arg, out) ==
  /\ disk' = out.disk
  /\ last' = [ret |-> out.ret, op |-> op, err |-> out.err, reads |-> out.reads,
              writes |-> out.writes, arg |-> arg, pre |-> disk]
  /\ UNCHANGED <<started, procs, events, fs, cmd, heap>>

LoadConfig == Call("loadConfig", Undefined, loadConfig(disk))

\* the registries handed to saveConfig directly
SavedConfigs ==
  {Config(is, ver) :
     is \in SeqsUpTo({Instance(n, AllVariants[1]) : n \in Names}, MaxSaveLen),
     ver \in Versions}

SaveConfig ==
  \E config \in SavedConfigs :
    Call("saveConfig", config,
         Outcome(saveConfig(disk, config), Undefined, "", 0, 1))

\* saveConfig(await loadConfig()): what is loaded is saved back as it is
ResaveConfig ==
  LET l == loadConfig(disk) IN
  /\ l.err = ""
  /\ Call("resaveConfig", l.ret,
          Outcome(saveConfig(l.disk, l.ret), Undefined, "", l.reads, l.writes + 1))

AddInstance ==
  \E inst \in Instances : Call("addInstance", inst, addInstance(disk, inst))

RemoveInstance ==
  \E n \in Names : Call("removeInstance", Str(n), removeInstance(disk, Str(n)))

GetInstance ==
  \E n \in Names : Call("getInstance", Str(n), getInstance(disk, Str(n)))

ListInstances == Call("listInstances", Undefined, listInstances(disk))

\* the registry operations
Next ==
  \/ LoadConfig
  \/ AddInstance
  \/ RemoveInstance
  \/ GetInstance
  \/ ListInstances

Spec == Init /\ [][Next]_vars

\* saves of arbitrary registries and loads
NextSave ==
  \/ LoadConfig
  \/ SaveConfig
  \/ ResaveConfig

SpecSave == Init /\ [][NextSave]_vars

-----------------------------------------------------------------------------
(* Concurrent invocations.  Every invocation of the tool is a process of   *)
(* its own; the file system calls of addInstance and removeInstance are    *)
(* the steps that interleave: the existsSync of loadConfig, its writeFile  *)
(* of the default registry or its readFile, and the writeFile of           *)
(* saveConfig.  What lies between two calls works on the invocation's own  *)
(* copy of the registry.                                                   *)

Procs == 1..NumProcs

\* the names the concurrent invocations add
RaceNames == {AllNames[1], AllNames[3]}

\* the record a registry holds before they start
RaceRecord == Instance(AllNames[4], AllVariants[2])

\* an add that does not look for the name in the registry it has loaded
addMutateUnchecked(config, instance) ==
  IF ~HasInstances(config) THEN [config |-> config, err |-> "TypeError"]
  ELSE [config |-> PropSet(config, "instances",
                           Arr(Append(PropGet(config, "instances").v, instance))),
        err |-> ""]

\* what addInstance does with the registry it has loaded, up to its save
addMutate(config, instance) ==
  IF ~HasInstances(config) THEN [config |-> config, err |-> "TypeError"]
  ELSE LET instances == PropGet(config, "instances").v IN
       IF FindIndexByName(instances, PropGet(instance, "name")) # 0
       THEN [config |-> config, err |-> "already exists"]
       ELSE [config |-> PropSet(config, "instances", Arr(Append(instances, instance))),
             err |-> ""]

\* what removeInstance does with the registry it has loaded, up to its
\* save; found = FALSE is the early return of null
removeMutate(config, name) ==
  IF ~HasInstances(config)
  THEN [ret |-> Undefined, config |-> config, err |-> "TypeError", found |-> FALSE]
  ELSE LET instances == PropGet(config, "instances").v
           index == FindIndexByName(instances, name)
       IN IF index = 0
          THEN [ret |-> Null, config |-> config, err |-> "", found |-> FALSE]
          ELSE [ret |-> instances[index], config |-> PropSet(config, "instances",
                  Arr(Splice(instances, index))), err |-> "", found |-> TRUE]

\* an invocation that has not run, or will not
Proc(op, arg) ==
  [ret |-> Undefined, op |-> op, pc |-> IF op = "none" THEN "done" ELSE "start",
   config |-> Undefined, err |-> "", arg |-> arg, loaded |-> Undefined]

Invocations ==
  {Proc("none", Undefined)}
  \cup {Proc("addInstance", Instance(n, AllVariants[1])) : n \in RaceNames}
  \cup {Proc("removeInstance", Str(n)) : n \in RaceNames}
  \cup {Proc("removeInstance", PropGet(RaceRecord, "name"))}

\* the stores the concurrent invocations start from
RaceStores ==
  {[disk |-> NoDisk, kind |-> "absent"],
   [disk |-> OnDisk(JSONstringify(defaultConfig)), kind |-> "empty"],
   [disk |-> OnDisk(JSONstringify(Config(<<RaceRecord>>, "1.0.0"))),
    kind |-> "registry"]}

InitRace ==
  \E s \in RaceStores :
    /\ disk = s.disk
    /\ started = s.kind
    /\ last = [ret |-> Undefined, op |-> "none", err |-> "", reads |-> 0,
               writes |-> 0, arg |-> Undefined, pre |-> s.disk]
    /\ procs \in [Procs -> Invocations]
    /\ events = <<>>
    /\ fs = <<>>
    /\ cmd = NoCmd
    /\ heap = <<>>

\* loadConfig up to its existsSync(CONFIG_FILE)
ProcStart(p) ==
  /\ procs[p].pc = "start"
  /\ disk' = ensureConfigDir(disk)
  /\ procs' = [procs EXCEPT ![p].pc = IF disk.exists THEN "read" ELSE "create"]
  /\ UNCHANGED <<last, started, events, fs, cmd, heap>>

\* the registry is in the invocation's hands: it is checked and changed,
\* and the invocation ends unless it has something to save
ProcLoaded(p, config) ==
  LET pr == procs[p]
      a == addMutate(config, pr.arg)
      r == removeMutate(config, pr.arg)
  IN procs' = [procs EXCEPT ![p] =
       IF pr.op = "addInstance"
       THEN [pr EXCEPT !.loaded = config, !.config = a.config, !.err = a.err,
                       !.pc = IF a.err = "" THEN "save" ELSE "done"]
       ELSE [pr EXCEPT !.loaded = config, !.config = r.config, !.err = r.err,
                       !.ret = r.ret,
                       !.pc = IF r.found THEN "save" ELSE "done"]]

\* loadConfig found no file: it writes the default registry and returns it
ProcCreate(p) ==
  /\ procs[p].pc = "create"
  /\ disk' = saveConfig(disk, defaultConfig)
  /\ ProcLoaded(p, defaultConfig)
  /\ events' = Append(events, <<p, "load">>)
  /\ UNCHANGED <<last, started, fs, cmd, heap>>

\* loadConfig reads the file and parses it
ProcRead(p) ==
  /\ procs[p].pc = "read"
  /\ IF JSONparse(disk.text).ok
     THEN ProcLoaded(p, JSONparse(disk.text).val)
     ELSE procs' = [procs EXCEPT ![p].pc = "done", ![p].err = "SyntaxError"]
  /\ events' = Append(events, <<p, "load">>)
  /\ UNCHANGED <<disk, last, started, fs, cmd, heap>>

\* saveConfig of the invocation's copy
ProcSave(p) ==
  /\ procs[p].pc = "save"
  /\ disk' = saveConfig(disk, procs[p].config)
  /\ procs' = [procs EXCEPT ![p].pc = "done"]
  /\ events' = Append(events, <<p, "save">>)
  /\ UNCHANGED <<last, started, fs, cmd, heap>>

NextRace ==
  \E p \in Procs :
    \/ ProcStart(p)
    \/ ProcCreate(p)
    \/ ProcRead(p)
    \/ ProcSave(p)

SpecRace == InitRace /\ [][NextRace]_vars

-----------------------------------------------------------------------------
(* The configuration directories: the default directory ~/.claude and the  *)
(* directories of the instances.  The file system is a function from the   *)
(* paths that exist to what is there; a path is the sequence of its        *)
(* components, an entry is a directory or a file with its text.            *)

DirEntry == [text |-> <<>>, dir |-> TRUE]

FileEntry(text) == [text |-> text, dir |-> FALSE]

\* join(dir, name)
Join(dir, name) == Append(dir, name)

\* existsSync(path)
ExistsSync(f, path) == path \in DOMAIN f

IsFile(f, path) == path \in DOMAIN f /\ ~f[path].dir

\* mkdir(path, {recursive: true})
Mkdir(f, path) ==
  LET made == {SubSeq(path, 1, n) : n \in 1..Len(path)} IN
  [q \in DOMAIN f \cup made |-> IF q \in DOMAIN f THEN f[q] ELSE DirEntry]

\* writeFile(path, text) and copyFile(source, path) succeed in a directory
\* that exists, on a path that is not a directory
CanWrite(f, path) ==
  /\ Len(path) > 1 => SubSeq(path, 1, Len(path) - 1) \in DOMAIN f
                        /\ f[SubSeq(path, 1, Len(path) - 1)].dir
  /\ path \in DOMAIN f => ~f[path].dir

WriteFile(f, path, text) ==
  [q \in DOMAIN f \cup {path} |-> IF q = path THEN FileEntry(text) ELSE f[q]]

\* getDefaultClaudeDir()
DefaultDir == <<"~/.claude">>

\* the directory a configDir string names
DirOf(configDir) == <<configDir>>

\* the outcome of a call on the configuration directories: the file system
\* and the registry store afterwards, the value returned, the error thrown,
\* the instance name its message carries, and the value handed to
\* writeMcpConfiguration (undefined if it was not reached)
FsOutcome(f, d, ret, err, written) ==
  [disk |-> d, fs |-> f, ret |-> ret, err |-> err, written |-> written,
   named |-> Undefined]

\* value && typeof value === "object"
TruthyObject(v) == v.k \in {"obj", "arr"}

\* what one candidate file yields: its parsed content if the file can be
\* read and parsed and has an mcpServers that is an object; found = FALSE
\* covers the errors the try block swallows
Candidate(f, path) ==
  IF ~IsFile(f, path) \/ ~JSONparse(f[path].text).ok
  THEN [val |-> Undefined, found |-> FALSE]
  ELSE LET val == JSONparse(f[path].text).val IN
       IF val.k # "null" /\ TruthyObject(PropGet(val, "mcpServers"))
       THEN [val |-> val, found |-> TRUE]
       ELSE [val |-> Undefined, found |-> FALSE]

\* the standalone files tried in another order
mcpFilesReversed == <<"claude-mcp.json", "mcp-servers.json", "mcp.json">>

mcpFiles == <<"mcp.json", "mcp-servers.json", "claude-mcp.json">>

RECURSIVE DetectInFiles(_, _, _)

\* the loop over mcpFiles from the i-th on
DetectInFiles(f, configDir, i) ==
  IF i > Len(mcpFiles) THEN Null
  ELSE LET c == Candidate(f, Join(configDir, mcpFiles[i])) IN
       IF ExistsSync(f, Join(configDir, mcpFiles[i])) /\ c.found THEN c.val
       ELSE DetectInFiles(f, configDir, i + 1)

detectMcpConfigurations(f, configDir) ==
  IF ~ExistsSync(f, configDir) THEN Null
  ELSE LET c == Candidate(f, Join(configDir, "settings.json")) IN
       IF ExistsSync(f, Join(configDir, "settings.json")) /\ c.found
       THEN Obj(<< <<"mcpServers", PropGet(c.val, "mcpServers")>> >>)
       ELSE DetectInFiles(f, configDir, 1)

RECURSIVE SpreadFrom(_, _, _)

SpreadFrom(acc, props, i) ==
  IF i > Len(props) THEN acc
  ELSE SpreadFrom(PropSet(acc, props[i][1], props[i][2]), props, i + 1)

\* a spread in which the properties of a win
SpreadFirstWins(a, b) == SpreadFrom(Obj(b.v), a.v, 1)

\* {...a, ...b} of two objects
Spread(a, b) == SpreadFrom(Obj(a.v), b.v, 1)

(* writeMcpConfiguration: ok = FALSE is the error writeFile throws when    *)
(* mcp.json cannot be written.  A settings.json that parses to null or to  *)
(* a string cannot take the property (the assignment throws, modules being *)
(* strict code) and the catch falls through to mcp.json; one that parses   *)
(* to an array takes it, and JSON.stringify of the array leaves it out.    *)
\* a write-back that always writes the standalone file
writeMcpConfigurationStandalone(f, targetConfigDir, mcpConfig) ==
  LET mcpFile == Join(targetConfigDir, "mcp.json") IN
  IF CanWrite(f, mcpFile)
  THEN [fs |-> WriteFile(f, mcpFile, JSONstringify(mcpConfig)), ok |-> TRUE]
  ELSE [fs |-> f, ok |-> FALSE]

writeMcpConfiguration(f, targetConfigDir, mcpConfig) ==
  LET settingsFile == Join(targetConfigDir, "settings.json")
      mcpFile == Join(targetConfigDir, "mcp.json")
      parsed == JSONparse(f[settingsFile].text)
      inSettings == /\ ExistsSync(f, settingsFile)
                    /\ IsFile(f, settingsFile)
                    /\ parsed.ok
                    /\ parsed.val.k \in {"obj", "arr"}
      settings == IF parsed.val.k = "obj"
                  THEN PropSet(parsed.val, "mcpServers", PropGet(mcpConfig, "mcpServers"))
                  ELSE parsed.val
  IN IF inSettings
     THEN [fs |-> WriteFile(f, settingsFile, JSONstringify(settings)), ok |-> TRUE]
     ELSE IF CanWrite(f, mcpFile)
     THEN [fs |-> WriteFile(f, mcpFile, JSONstringify(mcpConfig)), ok |-> TRUE]
     ELSE [fs |-> f, ok |-> FALSE]

\* a copy that creates the target directory before it looks at the default
copyMcpServersFromDefaultMkdirFirst(f, d, targetConfigDir) ==
  LET f1 == Mkdir(f, targetConfigDir)
      mcpConfig == detectMcpConfigurations(f1, DefaultDir)
      w == writeMcpConfiguration(f1, targetConfigDir, mcpConfig)
  IN IF mcpConfig = Null
     THEN FsOutcome(f1, d, Undefined, "No MCP configurations found in default Claude",
                    Undefined)
     ELSE FsOutcome(w.fs, d, Undefined, "", mcpConfig)

copyMcpServersFromDefault(f, d, targetConfigDir) ==
  LET mcpConfig == detectMcpConfigurations(f, DefaultDir) IN
  IF mcpConfig = Null
  THEN FsOutcome(f, d, Undefined, "No MCP configurations found in default Claude",
                 Undefined)
  ELSE LET f1 == IF ~ExistsSync(f, targetConfigDir) THEN Mkdir(f, targetConfigDir)
                 ELSE f
           existingMcpConfig == detectMcpConfigurations(f1, targetConfigDir)
           toWrite == IF existingMcpConfig # Null
                      THEN Obj(<< <<"mcpServers",
                                    Spread(PropGet(mcpConfig, "mcpServers"),
                                           PropGet(existingMcpConfig, "mcpServers"))>> >>)
                      ELSE mcpConfig
           w == writeMcpConfiguration(f1, targetConfigDir, toWrite)
       IN FsOutcome(w.fs, d, Undefined, IF w.ok THEN "" ELSE "ENOENT", toWrite)

\* a copy that looks the target up before the source
copyMcpServersBetweenInstancesTargetFirst(f, d, sourceInstanceName, targetInstanceName) ==
  LET src == getInstance(d, sourceInstanceName)
      tgt == getInstance(src.disk, targetInstanceName)
  IN IF src.err # "" THEN FsOutcome(f, src.disk, Undefined, src.err, Undefined)
     ELSE IF tgt.err # "" THEN FsOutcome(f, tgt.disk, Undefined, tgt.err, Undefined)
     ELSE IF tgt.ret = Null
     THEN [FsOutcome(f, tgt.disk, Undefined, "Target instance not found", Undefined)
             EXCEPT !.named = targetInstanceName]
     ELSE IF src.ret = Null
     THEN [FsOutcome(f, tgt.disk, Undefined, "Source instance not found", Undefined)
             EXCEPT !.named = sourceInstanceName]
     ELSE LET sourceMcpConfig ==
                detectMcpConfigurations(f, DirOf(PropGet(src.ret, "configDir").v[1]))
              w == writeMcpConfiguration(f, DirOf(PropGet(tgt.ret, "configDir").v[1]),
                                         sourceMcpConfig)
          IN IF sourceMcpConfig = Null
             THEN [FsOutcome(f, tgt.disk, Undefined,
                             "No MCP configurations found in instance", Undefined)
                     EXCEPT !.named = sourceInstanceName]
             ELSE FsOutcome(w.fs, tgt.disk, Undefined,
                            IF w.ok THEN "" ELSE "ENOENT", sourceMcpConfig)

copyMcpServersBetweenInstances(f, d, sourceInstanceName, targetInstanceName) ==
  LET src == getInstance(d, sourceInstanceName)
      tgt == getInstance(src.disk, targetInstanceName)
  IN IF src.err # "" THEN FsOutcome(f, src.disk, Undefined, src.err, Undefined)
     ELSE IF tgt.err # "" THEN FsOutcome(f, tgt.disk, Undefined, tgt.err, Undefined)
     ELSE IF src.ret = Null
     THEN [FsOutcome(f, tgt.disk, Undefined, "Source instance not found", Undefined)
             EXCEPT !.named = sourceInstanceName]
     ELSE IF tgt.ret = Null
     THEN [FsOutcome(f, tgt.disk, Undefined, "Target instance not found", Undefined)
             EXCEPT !.named = targetInstanceName]
     ELSE LET sourceDir == DirOf(PropGet(src.ret, "configDir").v[1])
              targetDir == DirOf(PropGet(tgt.ret, "configDir").v[1])
              sourceMcpConfig == detectMcpConfigurations(f, sourceDir)
              w == writeMcpConfiguration(f, targetDir, sourceMcpConfig)
          IN IF sourceMcpConfig = Null
             THEN [FsOutcome(f, tgt.disk, Undefined,
                             "No MCP configurations found in instance", Undefined)
                     EXCEPT !.named = sourceInstanceName]
             ELSE FsOutcome(w.fs, tgt.disk, Undefined,
                            IF w.ok THEN "" ELSE "ENOENT", sourceMcpConfig)

-----------------------------------------------------------------------------
(* Contents of configuration directories *)

\* an MCP server entry
Server(command) == Obj(<< <<"type", Str("stdio")>>, <<"command", Str(command)>> >>)

\* the maps of the example: the default's {a: X, b: Y}, the target's {b: Z}
MapAB == Obj(<< <<"a", Server("X")>>, <<"b", Server("Y")>> >>)

MapB == Obj(<< <<"b", Server("Z")>> >>)

MapC == Obj(<< <<"c", Server("W")>> >>)

MapD == Obj(<< <<"d", Server("V")>> >>)

EmptyMap == Obj(<<>>)

\* a text that is not JSON
Garbage == <<P("{"), S("mcpServers"), P(":")>>

\* a directory with the given files, a set of <<name, text>>
DirWith(dir, files) ==
  [q \in {dir} \cup {Join(dir, e[1]) : e \in files} |->
     IF q = dir THEN DirEntry
     ELSE FileEntry((CHOOSE e \in files : Join(dir, e[1]) = q)[2])]

\* one file, named name, for each of the texts, and no file
OneOf(name, texts) == {{}} \cup {{<<name, text>>} : text \in texts}

\* settings.json with other keys and the given value of mcpServers
Settings(map) ==
  JSONstringify(Obj(<< <<"theme", Str("dark")>>, <<"mcpServers", map>>,
                       <<"model", Str("opus")>> >>))

SettingsTexts ==
  {Garbage,
   JSONstringify(Obj(<< <<"theme", Str("dark")>> >>)),
   Settings(MapAB), Settings(MapB), Settings(EmptyMap),
   \* values of mcpServers that are no object
   Settings(Str("off")), Settings(Null),
   \* JSON that is no object
   <<Lit("null")>>, <<S("dark")>>, <<P("["), P("]")>>}

McpTexts ==
  {Garbage,
   JSONstringify(Obj(<<>>)),
   JSONstringify(Obj(<< <<"mcpServers", MapAB>> >>)),
   JSONstringify(Obj(<< <<"mcpServers", MapB>>, <<"comment", Str("mine")>> >>)),
   JSONstringify(Obj(<< <<"mcpServers", Str("off")>> >>))}

\* the states of a configuration directory: absent, or there with any
\* choice of the four candidate files
DirStates(dir) ==
  {<<>>} \cup
  {DirWith(dir, a \cup b \cup c \cup d) :
     a \in OneOf("settings.json", SettingsTexts),
     b \in OneOf("mcp.json", McpTexts),
     c \in OneOf("mcp-servers.json",
                 {JSONstringify(Obj(<< <<"mcpServers", MapC>> >>))}),
     d \in OneOf("claude-mcp.json",
                 {Garbage, JSONstringify(Obj(<< <<"mcpServers", MapD>> >>))})}

\* the states of the default directory that are told apart
DefaultStates ==
  {<<>>,
   DirWith(DefaultDir, {}),
   DirWith(DefaultDir, {<<"settings.json",
                          JSONstringify(Obj(<< <<"theme", Str("dark")>> >>))>>}),
   DirWith(DefaultDir, {<<"settings.json", Settings(MapAB)>>}),
   DirWith(DefaultDir, {<<"settings.json", Garbage>>,
                        <<"mcp.json", JSONstringify(Obj(<< <<"mcpServers", MapAB>>,
                                                           <<"comment", Str("all")>> >>))>>}),
   DirWith(DefaultDir, {<<"settings.json", Settings(Null)>>,
                        <<"mcp.json", Garbage>>,
                        <<"claude-mcp.json",
                          JSONstringify(Obj(<< <<"mcpServers", MapD>> >>))>>})}

\* the directories of two instances
DirX == DirOf(AllVariants[1].configDir)

DirY == DirOf(AllVariants[2].configDir)

NoCall ==
  [ret |-> Undefined, op |-> "none", err |-> "", arg |-> Undefined,
   pre |-> NoDisk, written |-> Undefined, named |-> Undefined, preFs |-> <<>>]

InitMcp ==
  /\ \E def \in DefaultStates, x \in DirStates(DirX) : fs = def @@ x
  /\ disk = NoDisk
  /\ started = "absent"
  /\ last = NoCall
  /\ procs = <<>>
  /\ events = <<>>
  /\ cmd = NoCmd
  /\ heap = <<>>

\* one call on the configuration directories, run to completion
FsCall(op, arg, out) ==
  /\ fs' = out.fs
  /\ disk' = out.disk
  /\ last' = [ret |-> out.ret, op |-> op, err |-> out.err, arg |-> arg,
              pre |-> disk, written |-> out.written,
              named |-> out.named, preFs |-> fs]
  /\ UNCHANGED <<started, procs, events, cmd, heap>>

DetectMcp(dir) ==
  FsCall("detectMcpConfigurations", dir,
         FsOutcome(fs, disk, detectMcpConfigurations(fs, dir), "", Undefined))

CopyMcpFromDefault(dir) ==
  FsCall("copyMcpServersFromDefault", dir, copyMcpServersFromDefault(fs, disk, dir))

NextMcp ==
  \/ \E dir \in {DefaultDir, DirX} : DetectMcp(dir)
  \/ CopyMcpFromDefault(DirX)

SpecMcp == InitMcp /\ [][NextMcp]_vars

\* the registries the copy between instances meets: the first name on
\* DirX and the second on DirY, either, none, and no registry file
BetweenStores ==
  {[disk |-> NoDisk, kind |-> "absent"],
   [disk |-> OnDisk(JSONstringify(defaultConfig)), kind |-> "empty"]}
  \cup
  {[disk |-> OnDisk(JSONstringify(Config(instances, "1.0.0"))), kind |-> "registry"] :
     instances \in {<<Instance(AllNames[1], AllVariants[1])>>,
                    <<Instance(AllNames[2], AllVariants[2])>>,
                    <<Instance(AllNames[1], AllVariants[1]),
                      Instance(AllNames[2], AllVariants[2])>>}}

\* the states of a source directory that are told apart
SourceStates(dir) ==
  {<<>>,
   DirWith(dir, {}),
   DirWith(dir, {<<"settings.json",
                   JSONstringify(Obj(<< <<"theme", Str("dark")>> >>))>>}),
   DirWith(dir, {<<"settings.json", Settings(MapAB)>>}),
   DirWith(dir, {<<"settings.json", Garbage>>,
                 <<"mcp-servers.json", JSONstringify(Obj(<< <<"mcpServers", MapC>> >>))>>})}

\* the states of a target directory that are told apart
TargetStates(dir) ==
  {<<>>,
   DirWith(dir, {}),
   DirWith(dir, {<<"settings.json",
                   JSONstringify(Obj(<< <<"theme", Str("dark")>> >>))>>}),
   DirWith(dir, {<<"settings.json", Settings(MapB)>>}),
   DirWith(dir, {<<"settings.json", Settings(Str("off"))>>,
                 <<"mcp.json", JSONstringify(Obj(<< <<"mcpServers", MapB>> >>))>>}),
   DirWith(dir, {<<"settings.json", Garbage>>,
                 <<"mcp.json", JSONstringify(Obj(<< <<"mcpServers", MapB>>,
                                                    <<"comment", Str("mine")>> >>))>>}),
   DirWith(dir, {<<"settings.json", <<Lit("null")>> >>,
                 <<"mcp.json", JSONstringify(Obj(<< <<"mcpServers", MapB>> >>))>>}),
   DirWith(dir, {<<"settings.json", <<S("dark")>> >>}),
   DirWith(dir, {<<"settings.json", <<P("["), P("]")>> >>}),
   DirWith(dir, {<<"settings.json", <<P("["), P("]")>> >>,
                 <<"mcp.json", JSONstringify(Obj(<< <<"mcpServers", MapB>> >>))>>}),
   DirWith(dir, {<<"mcp.json", Garbage>>,
                 <<"claude-mcp.json", JSONstringify(Obj(<< <<"mcpServers", MapD>> >>))>>})}

InitBetween ==
  /\ \E x \in SourceStates(DirX), y \in TargetStates(DirY) : fs = x @@ y
  /\ \E s \in BetweenStores : disk = s.disk /\ started = s.kind
  /\ last = NoCall
  /\ procs = <<>>
  /\ events = <<>>
  /\ cmd = NoCmd
  /\ heap = <<>>

CopyMcpBetween(source, target) ==
  FsCall("copyMcpServersBetweenInstances", <<source, target>>,
         copyMcpServersBetweenInstances(fs, disk, source, target))

NextBetween ==
  \E source, target \in Names : CopyMcpBetween(Str(source), Str(target))

SpecBetween == InitBetween /\ [][NextBetween]_vars

-----------------------------------------------------------------------------
(* The copies of files from the default directory *)

\* mkdir(path, {recursive: true}) throws when a part of the path is a file
CanMkdir(f, path) ==
  \A n \in 1..Len(path) :
    SubSeq(path, 1, n) \in DOMAIN f => f[SubSeq(path, 1, n)].dir

\* the error copyFile throws when it cannot write the path
CopyFileError(f, path) ==
  IF path \in DOMAIN f /\ f[path].dir THEN "EISDIR"
  ELSE IF SubSeq(path, 1, Len(path) - 1) \in DOMAIN f THEN "ENOTDIR"
  ELSE "ENOENT"

\* a copy of settings.json that creates the target directory first
copySettingsFromDefaultMkdirFirst(f, d, targetConfigDir) ==
  LET sourceSettings == Join(DefaultDir, "settings.json")
      targetSettings == Join(targetConfigDir, "settings.json")
      f1 == Mkdir(f, targetConfigDir)
  IN IF ~ExistsSync(f, sourceSettings)
     THEN FsOutcome(f1, d, Undefined, "Default Claude settings.json not found", Undefined)
     ELSE FsOutcome(WriteFile(f1, targetSettings, f[sourceSettings].text), d,
                    Undefined, "", Undefined)

copySettingsFromDefault(f, d, targetConfigDir) ==
  LET sourceSettings == Join(DefaultDir, "settings.json")
      targetSettings == Join(targetConfigDir, "settings.json")
      f1 == IF ~ExistsSync(f, targetConfigDir) THEN Mkdir(f, targetConfigDir) ELSE f
  IN IF ~ExistsSync(f, sourceSettings)
     THEN FsOutcome(f, d, Undefined, "Default Claude settings.json not found", Undefined)
     ELSE IF ~ExistsSync(f, targetConfigDir) /\ ~CanMkdir(f, targetConfigDir)
     THEN FsOutcome(f, d, Undefined, "ENOTDIR", Undefined)
     ELSE IF ~IsFile(f1, sourceSettings)
     THEN FsOutcome(f1, d, Undefined, "EISDIR", Undefined)
     ELSE IF ~CanWrite(f1, targetSettings)
     THEN FsOutcome(f1, d, Undefined, CopyFileError(f1, targetSettings), Undefined)
     ELSE FsOutcome(WriteFile(f1, targetSettings, f1[sourceSettings].text), d,
                    Undefined, "", Undefined)

excludeFiles ==
  <<"config.json", ".config.json", "history.jsonl", "debug", "session-env",
    "todos", "file-history", "shell-snapshots", "statsig", "mcp-cache",
    "mcp-logs", ".mcp-temp">>

\* an exclusion that looks at the entries of the default directory only
IsExcludedAtTop(source, entry) ==
  source = DefaultDir /\ \E i \in 1..Len(excludeFiles) : excludeFiles[i] = entry

\* excludeFiles.includes(entry), for an entry of the directory source
IsExcluded(source, entry) == \E i \in 1..Len(excludeFiles) : excludeFiles[i] = entry

\* readdirSync(dir): the names of the entries of the directory
readdirSync(f, dir) ==
  {q[Len(q)] : q \in {r \in DOMAIN f : /\ Len(r) = Len(dir) + 1
                                       /\ SubSeq(r, 1, Len(dir)) = dir}}

\* one call of copyRecursive: the entries it has read and not yet handled
Frame(f, source, target) ==
  [source |-> source, target |-> target, entries |-> readdirSync(f, source)]

\* the call that is running ends with the error, or without one; made by
\* the add command, it returns to the command, which an error ends
Finish(err) ==
  IF cmd.op = "add" /\ err = ""
  THEN /\ cmd' = [cmd EXCEPT !.pc = "step", !.pos = @ + 1, !.stack = <<>>]
       /\ UNCHANGED last
  ELSE /\ last' = [ret |-> Undefined,
                   op |-> cmd.op, err |-> err,
                   arg |-> IF cmd.op = "add" THEN cmd.instance ELSE cmd.arg,
                   pre |-> IF cmd.op = "add" THEN cmd.pre ELSE disk,
                   written |-> Undefined, named |-> Undefined,
                   preFs |-> cmd.preFs]
       /\ cmd' = NoCmd

\* copyAllFromDefault up to its call of copyRecursive: the error it throws
\* there, the file system after its mkdir, whether that was made
copyAllBegin(f, target) ==
  IF ~ExistsSync(f, DefaultDir)
  THEN [fs |-> f, err |-> "Default Claude directory not found", made |-> FALSE]
  ELSE IF ~ExistsSync(f, target) /\ ~CanMkdir(f, target)
  THEN [fs |-> f, err |-> "ENOTDIR", made |-> FALSE]
  ELSE IF ~ExistsSync(f, target)
  THEN [fs |-> Mkdir(f, target), err |-> "", made |-> TRUE]
  ELSE [fs |-> f, err |-> "", made |-> FALSE]

\* a call of copyAllFromDefault begins
CopyAllStart(target) ==
  /\ cmd = NoCmd
  /\ LET b == copyAllBegin(fs, target) IN
     /\ fs' = b.fs
     /\ events' = IF b.made THEN << <<"mkdir", target>> >> ELSE <<>>
     /\ IF b.err # ""
        THEN /\ last' = [NoCall EXCEPT !.op = "copyAllFromDefault", !.arg = target,
                                       !.err = b.err, !.pre = disk, !.preFs = fs]
             /\ UNCHANGED cmd
        ELSE /\ cmd' = [op |-> "copyAllFromDefault", pc |-> "copyRecursive",
                        arg |-> target, preFs |-> fs,
                        stack |-> <<Frame(fs, DefaultDir, target)>>]
             /\ UNCHANGED last
  /\ UNCHANGED <<disk, started, procs, heap>>

\* a call of copyRecursive has handled all its entries and returns
CopyAllReturn ==
  /\ cmd.pc = "copyRecursive"
  /\ cmd.stack[Len(cmd.stack)].entries = {}
  /\ IF Len(cmd.stack) = 1 THEN Finish("")
     ELSE /\ cmd' = [cmd EXCEPT !.stack = SubSeq(cmd.stack, 1, Len(cmd.stack) - 1)]
          /\ UNCHANGED last
  /\ UNCHANGED <<disk, started, procs, events, fs, heap>>

\* one turn of the loop of copyRecursive; readdirSync promises no order, so
\* the entry is any of those not yet handled
CopyAllEntry ==
  /\ cmd.pc = "copyRecursive"
  /\ \E entry \in cmd.stack[Len(cmd.stack)].entries :
       LET top == cmd.stack[Len(cmd.stack)]
           sourcePath == Join(top.source, entry)
           targetPath == Join(top.target, entry)
           rest == [cmd EXCEPT !.stack[Len(cmd.stack)].entries = @ \ {entry}]
       IN IF IsExcluded(top.source, entry)
          THEN cmd' = rest /\ UNCHANGED <<last, events, fs>>
          ELSE IF fs[sourcePath].dir
          THEN IF ~ExistsSync(fs, targetPath) /\ ~CanMkdir(fs, targetPath)
               THEN Finish("ENOTDIR") /\ UNCHANGED <<events, fs>>
               ELSE /\ fs' = IF ~ExistsSync(fs, targetPath) THEN Mkdir(fs, targetPath)
                             ELSE fs
                    /\ events' = IF ~ExistsSync(fs, targetPath)
                                 THEN Append(events, <<"mkdir", targetPath>>)
                                 ELSE events
                    /\ cmd' = [rest EXCEPT !.stack =
                                 Append(@, Frame(fs, sourcePath, targetPath))]
                    /\ UNCHANGED last
          ELSE IF ~CanWrite(fs, targetPath)
          THEN Finish(CopyFileError(fs, targetPath)) /\ UNCHANGED <<events, fs>>
          ELSE /\ fs' = WriteFile(fs, targetPath, fs[sourcePath].text)
               /\ events' = Append(events, <<"copyFile", targetPath>>)
               /\ cmd' = rest
               /\ UNCHANGED last
  /\ UNCHANGED <<disk, started, procs, heap>>

CopySettings(target) ==
  /\ cmd = NoCmd
  /\ FsCall("copySettingsFromDefault", target, copySettingsFromDefault(fs, disk, target))

\* a tree: the directory root, the directories and the files below it, each
\* by its path from root; a file's text tells whose it is and where it lies
Tree(root, whose, dirs, files) ==
  [q \in {root} \cup {root \o r : r \in dirs \cup files} |->
     IF q = root \/ \E r \in dirs : q = root \o r THEN DirEntry
     ELSE FileEntry(<<S(whose)>> \o [i \in 1..(Len(q) - Len(root)) |-> S(q[Len(root) + i])])]

\* the states of the default directory: absent, empty, with excluded names
\* at the top and one level down, with excluded names two levels down
DefaultTrees ==
  {<<>>,
   Tree(DefaultDir, "default", {}, {}),
   Tree(DefaultDir, "default",
        {<<"debug">>, <<"agents">>, <<"agents", "todos">>},
        {<<"settings.json">>, <<"history.jsonl">>, <<"debug", "latest.log">>,
         <<"agents", "reviewer.md">>, <<"agents", "config.json">>,
         <<"agents", "todos", "1.json">>}),
   Tree(DefaultDir, "default",
        {<<"plugins">>, <<"plugins", "cache">>, <<"plugins", "cache", "statsig">>,
         <<"statsig">>},
        {<<"CLAUDE.md">>, <<"statsig", "plugins.json">>,
         <<"plugins", "cache", "index.json">>,
         <<"plugins", "cache", "statsig", "gate.json">>})}

\* the states of a directory copied into: absent, empty, with files of its
\* own under copied and excluded names, with a file where a directory goes
TargetTrees(dir) ==
  {<<>>,
   Tree(dir, "target", {}, {}),
   Tree(dir, "target", {<<"agents">>, <<"debug">>},
        {<<"settings.json">>, <<"keep.txt">>, <<"history.jsonl">>,
         <<"agents", "reviewer.md">>, <<"agents", "own.md">>,
         <<"debug", "latest.log">>}),
   Tree(dir, "target", {}, {<<"agents">>, <<"statsig">>})}

\* a target two directories below one that does not exist
DirDeep == <<"/opt/claude", "profiles", "work">>

CopyTargets == {DirX, DirDeep}

InitCopy ==
  /\ \E def \in DefaultTrees, x \in TargetTrees(DirX) : fs = def @@ x
  /\ disk = NoDisk
  /\ started = "absent"
  /\ last = NoCall
  /\ procs = <<>>
  /\ events = <<>>
  /\ cmd = NoCmd
  /\ heap = <<>>

NextCopy ==
  \/ \E target \in CopyTargets : CopySettings(target)
  \/ \E target \in CopyTargets : CopyAllStart(target)
  \/ CopyAllEntry
  \/ CopyAllReturn

SpecCopy == InitCopy /\ [][NextCopy]_vars

-----------------------------------------------------------------------------
(* The add command *)

\* hasDefaultClaudeConfig()
hasDefaultClaudeConfig(f) ==
  ExistsSync(f, DefaultDir) /\ ExistsSync(f, Join(DefaultDir, "settings.json"))

\* hasDefaultMcpConfig()
hasDefaultMcpConfig(f) == detectMcpConfigurations(f, DefaultDir) # Null

\* the options of the command that say what to copy
Flags == {"--copy-all", "--copy-settings", "--copy-mcp", "--skip-prompts"}

\* the choices the prompt offers; without a default configuration there is
\* no prompt and nothing is copied
Choices(f) ==
  {"none"}
  \cup (IF hasDefaultClaudeConfig(f) THEN {"settings", "all"} ELSE {})
  \cup (IF hasDefaultMcpConfig(f) THEN {"mcp"} ELSE {})
  \cup (IF hasDefaultClaudeConfig(f) /\ hasDefaultMcpConfig(f) THEN {"settings+mcp"}
        ELSE {})

\* what the command was asked to copy: the flags given, or with no flag the
\* choice made at the prompt
Modes ==
  {[flags |-> given, choice |-> "none"] : given \in SUBSET Flags \ {{}}}
  \cup {[flags |-> {}, choice |-> c] : c \in {"none", "settings", "mcp", "settings+mcp", "all"}}

\* flags that are taken one by one: --copy-mcp counts next to --copy-all
copyMcpServersEachFlag(mode) ==
  IF mode.flags # {} THEN "--copy-mcp" \in mode.flags
  ELSE mode.choice \in {"mcp", "settings+mcp", "all"}

copySettings(mode) ==
  IF mode.flags # {}
  THEN "--copy-all" \in mode.flags \/ "--copy-settings" \in mode.flags
  ELSE mode.choice \in {"settings", "settings+mcp", "all"}

copyMcpServers(mode) ==
  IF mode.flags # {}
  THEN mode.flags \cap {"--copy-all", "--copy-settings"} = {} /\ "--copy-mcp" \in mode.flags
  ELSE mode.choice \in {"mcp", "settings+mcp", "all"}

copyAllFiles(mode) ==
  IF mode.flags # {} THEN "--copy-all" \in mode.flags ELSE mode.choice = "all"

\* the path of the launcher of an instance
WrapperPath(instance) == <<PropGet(instance, "binaryPath").v[1]>>

\* Text whose parts matter is a sequence of pieces: a piece is a stretch of
\* fixed text or a value put in as it is, and texts are joined by \o.
LF == "\n"

\* a launcher that sets the variable to the path of the launcher
generateWrapperScriptOfBinary(options) ==
  <<"#!/usr/bin/env node", LF, "process.env.CLAUDE_CONFIG_DIR = \"">>
  \o options.binaryPath
  \o <<"\"", LF, "spawn", "claude-multi", "process.argv.slice(2)", "stdio: inherit",
       "process.exit(code)", LF>>

\* generateWrapperScript(options): the interpreter directive, the
\* assignment of configDir to the variable, and the start of the shared
\* binary with all arguments, the standard streams and its exit code
generateWrapperScript(options) ==
  <<"#!/usr/bin/env node", LF, "process.env.CLAUDE_CONFIG_DIR = \"">>
  \o options.configDir
  \o <<"\"", LF, "spawn", "claude-multi", "process.argv.slice(2)", "stdio: inherit",
       "process.exit(code)", LF>>

\* generateWindowsWrapperScript(options): the batch file
generateWindowsWrapperScript(options) ==
  <<"@echo off", LF, "set \"CLAUDE_CONFIG_DIR=">>
  \o options.configDir
  \o <<"\"", LF, "claude-multi", " ", "%*", LF, "exit /b %ERRORLEVEL%", LF>>

\* homedir() and the directory npm puts executables in on Windows
HomeDir == <<"/home/u">>

NpmDir == <<"C:\\Users\\u\\AppData\\Roaming", "\\", "npm">>

\* getDefaultBinaryPath(name) on a platform
getDefaultBinaryPath(platform, name) ==
  IF platform = "win32" THEN NpmDir \o <<"\\", "claude-">> \o name \o <<".cmd">>
  ELSE HomeDir \o <<"/", ".local/bin", "/", "claude-">> \o name

\* the options of the launcher of a registered instance
WrapperOptions(instance) ==
  [configDir |-> <<PropGet(instance, "configDir").v[1]>>,
   binaryPath |-> <<PropGet(instance, "binaryPath").v[1]>>,
   name |-> <<PropGet(instance, "name").v[1]>>]

\* the text of a file that holds the script
ScriptText(script) == [i \in 1..Len(script) |-> S(script[i])]

\* createWrapper: writes the script to the launcher path and marks it
\* executable; it cannot write where a directory is
createWrapper(f, instance) ==
  IF WrapperPath(instance) \in DOMAIN f /\ f[WrapperPath(instance)].dir
  THEN [fs |-> f, ok |-> FALSE]
  ELSE [fs |-> [q \in DOMAIN f \cup {WrapperPath(instance)} |->
                  IF q = WrapperPath(instance)
                  THEN [text |-> ScriptText(generateWrapperScript(
                                            WrapperOptions(instance))),
                        dir |-> FALSE, exec |-> TRUE]
                  ELSE f[q]],
        ok |-> TRUE]

\* a command that generates the wrapper before it stores the record
AddStepsWrapperFirst ==
  <<"createWrapper", "addInstance", "copySettingsFromDefault",
    "copyMcpServersFromDefault", "copyAllFromDefault">>

\* a command that stores the record after everything else
AddStepsPersistLast ==
  <<"createWrapper", "copySettingsFromDefault", "copyMcpServersFromDefault",
    "copyAllFromDefault", "addInstance">>

\* the calls of the add command in the order it makes them
AddSteps ==
  <<"addInstance", "createWrapper", "copySettingsFromDefault",
    "copyMcpServersFromDefault", "copyAllFromDefault">>

\* a command that catches no error of a copy
CaughtAsWarningNever(step) == FALSE

\* the copy whose error the command catches and prints as a warning
CaughtAsWarning(step) == step = "copyMcpServersFromDefault"

\* the command ends: with the error it printed before process.exit(1), or
\* without one
AddExit(err) ==
  /\ last' = [ret |-> Undefined, op |-> "add", err |-> err, arg |-> cmd.instance,
              pre |-> cmd.pre, written |-> Undefined,
              named |-> Undefined, preFs |-> cmd.preFs]
  /\ cmd' = NoCmd

\* the command goes on to its next call
AddGoOn == cmd' = [cmd EXCEPT !.pos = @ + 1] /\ UNCHANGED last

\* the add command begins: from the command line with a flag or through
\* the prompt, or from the menu, which looks the name up first and returns
\* if it is taken
AddStart(via, name, mode) ==
  /\ cmd = NoCmd
  /\ \/ mode.flags = {} /\ mode.choice \in Choices(fs)
     \/ mode.flags # {} /\ via = "command"
  /\ \E existing \in {IF via = "menu" THEN getInstance(disk, Str(name))
                     ELSE [disk |-> disk, ret |-> Null, err |-> ""]},
        instance \in {Instance(name, AllVariants[1])} :
        /\ disk' = existing.disk
        /\ IF existing.err # "" \/ existing.ret # Null
           THEN /\ last' = [NoCall EXCEPT !.op = "add", !.arg = instance,
                                          !.err = IF existing.err # "" THEN existing.err
                                                  ELSE "already exists",
                                          !.pre = disk, !.preFs = fs]
                /\ UNCHANGED cmd
           ELSE /\ cmd' = [op |-> "add", pc |-> "step", instance |-> instance,
                           arg |-> DirOf(PropGet(instance, "configDir").v[1]),
                           pre |-> disk, preFs |-> fs, pos |-> 1, stack |-> <<>>,
                           mode |-> mode,
                           prompted |-> mode.flags = {}
                                        /\ (hasDefaultClaudeConfig(fs)
                                            \/ hasDefaultMcpConfig(fs))]
                /\ UNCHANGED last
  /\ events' = <<>>
  /\ UNCHANGED <<started, procs, fs, heap>>

\* the next call of the command
AddStep ==
  /\ cmd.op = "add" /\ cmd.pc = "step" /\ cmd.pos <= Len(AddSteps)
  /\ LET step == AddSteps[cmd.pos]
         called == Append(events, <<step, cmd.arg>>)
     IN CASE step = "addInstance" ->
               \E out \in {addInstance(disk, cmd.instance)} :
               /\ disk' = out.disk
               /\ events' = Append(events, <<step, out.disk>>)
               /\ IF out.err # "" THEN AddExit(out.err) ELSE AddGoOn
               /\ UNCHANGED fs
          [] step = "createWrapper" ->
               \E out \in {createWrapper(fs, cmd.instance)} :
               /\ fs' = out.fs
               /\ events' = Append(events, <<step, WrapperPath(cmd.instance)>>)
               /\ IF ~out.ok THEN AddExit("EISDIR") ELSE AddGoOn
               /\ UNCHANGED disk
          [] step = "copySettingsFromDefault" ->
               IF copySettings(cmd.mode) /\ ~copyAllFiles(cmd.mode)
               THEN \E out \in {copySettingsFromDefault(fs, disk, cmd.arg)} :
                    /\ fs' = out.fs
                    /\ events' = called
                    /\ IF out.err # "" THEN AddExit(out.err) ELSE AddGoOn
                    /\ UNCHANGED disk
               ELSE AddGoOn /\ UNCHANGED <<disk, fs, events>>
          [] step = "copyMcpServersFromDefault" ->
               \* an error of this copy is printed as a warning
               IF copyMcpServers(cmd.mode) /\ ~copyAllFiles(cmd.mode)
               THEN \E out \in {copyMcpServersFromDefault(fs, disk, cmd.arg)} :
                    /\ fs' = out.fs
                    /\ events' = IF out.err # "" /\ CaughtAsWarning(step)
                                 THEN Append(called, <<"warning", out.err>>)
                                 ELSE called
                    /\ IF out.err # "" /\ ~CaughtAsWarning(step)
                       THEN AddExit(out.err) ELSE AddGoOn
                    /\ UNCHANGED disk
               ELSE AddGoOn /\ UNCHANGED <<disk, fs, events>>
          [] step = "copyAllFromDefault" ->
               IF copyAllFiles(cmd.mode)
               THEN \E b \in {copyAllBegin(fs, cmd.arg)} :
                    /\ fs' = b.fs
                    /\ events' = IF b.made THEN Append(called, <<"mkdir", cmd.arg>>)
                                 ELSE called
                    /\ IF b.err # "" THEN AddExit(b.err)
                       ELSE /\ cmd' = [cmd EXCEPT !.pc = "copyRecursive",
                                         !.stack = <<Frame(fs, DefaultDir, cmd.arg)>>]
                            /\ UNCHANGED last
                    /\ UNCHANGED disk
               ELSE AddGoOn /\ UNCHANGED <<disk, fs, events>>
  /\ UNCHANGED <<started, procs, heap>>

\* the command has made its calls and reports the instance as created
AddDone ==
  /\ cmd.op = "add" /\ cmd.pc = "step" /\ cmd.pos > Len(AddSteps)
  /\ AddExit("")
  /\ UNCHANGED <<disk, started, procs, events, fs, heap>>

\* where the launcher goes: nothing there, or a directory
WrapperStates ==
  {<<>>, [q \in {<<AllVariants[1].binaryPath>>} |-> DirEntry]}

\* what a registered instance has on disk: its launcher and its
\* configuration directory with files of its own, or neither
RegisteredStates ==
  {<<>>,
   createWrapper(<<>>, Instance(AllNames[1], AllVariants[1])).fs
     @@ Tree(DirX, "instance", {}, {<<"settings.json">>, <<"keep.txt">>})}

\* the default directory as the add command meets it
AddDefaultStates ==
  {<<>>,
   DirWith(DefaultDir, {<<"settings.json", Settings(MapAB)>>,
                        <<"history.jsonl", Garbage>>,
                        <<"CLAUDE.md", <<S("notes")>> >>}),
   DirWith(DefaultDir, {<<"mcp.json", JSONstringify(Obj(<< <<"mcpServers", MapAB>> >>))>>})}

\* the registry as the add command meets it
AddStores ==
  {[disk |-> NoDisk, kind |-> "absent"],
   [disk |-> OnDisk(JSONstringify(defaultConfig)), kind |-> "empty"],
   [disk |-> OnDisk(JSONstringify(Config(<<Instance(AllNames[1], AllVariants[1])>>,
                                         "1.0.0"))),
    kind |-> "registry"]}

\* the names given to the command: one the registry may hold, one it
\* does not
AddNames == {AllNames[1], AllNames[3]}

InitAdd ==
  /\ \E s \in AddStores :
       /\ disk = s.disk
       /\ started = s.kind
       /\ \E def \in AddDefaultStates,
             w \in IF s.kind = "registry" THEN RegisteredStates ELSE WrapperStates :
            fs = def @@ w
  /\ last = NoCall
  /\ procs = <<>>
  /\ events = <<>>
  /\ cmd = NoCmd
  /\ heap = <<>>

NextAdd ==
  \/ \E via \in {"command", "menu"}, name \in AddNames, mode \in Modes :
       AddStart(via, name, mode)
  \/ AddStep
  \/ AddDone
  \/ CopyAllEntry
  \/ CopyAllReturn

SpecAdd == InitAdd /\ [][NextAdd]_vars

-----------------------------------------------------------------------------
(* The removal of an instance *)

\* removeWrapper: deletes the launcher file if there is one; a missing file
\* is no error
removeWrapper(f, path) ==
  IF path \in DOMAIN f /\ ~f[path].dir
  THEN [q \in DOMAIN f \ {path} |-> f[q]]
  ELSE f

\* a removal that deletes the settings of the instance
RemoveTargetInConfigDir(instance) ==
  Join(DirOf(PropGet(instance, "configDir").v[1]), "settings.json")

\* what the removal hands to removeWrapper: the binaryPath of the record
RemoveTarget(instance) == WrapperPath(instance)

\* the removal ends: with the error it printed, or without one
RemoveExit(err) ==
  /\ last' = [NoCall EXCEPT !.op = "remove", !.arg = cmd.instance, !.err = err,
                            !.named = cmd.name, !.pre = cmd.pre, !.preFs = cmd.preFs]
  /\ cmd' = NoCmd

\* the removal begins.  The command looks the name up and exits if it is not
\* registered; without --force it prints what it is about to remove and goes
\* on.  The menu offers the names of the instances it listed and then asks
\* for confirmation.
RemoveStart(via, name, force) ==
  /\ cmd = NoCmd
  /\ via = "menu" => ~force
  /\ \E found \in {IF via = "command" THEN getInstance(disk, Str(name))
                  ELSE listInstances(disk)} :
     LET listed == IF via = "menu" /\ found.err = "" /\ found.ret.k = "arr"
                   THEN found.ret.v ELSE <<>>
         index == FindIndexByName(listed, Str(name))
         instance == IF via = "command" THEN found.ret ELSE listed[index]
         running == [op |-> "remove", pc |-> "removeInstance", name |-> Str(name),
                     instance |-> instance, pre |-> disk, preFs |-> fs,
                     via |-> via, force |-> force, confirmed |-> FALSE]
         failed(err) == last' = [NoCall EXCEPT !.op = "remove", !.named = Str(name),
                                               !.err = err, !.pre = disk, !.preFs = fs]
     IN /\ disk' = found.disk
        /\ IF via = "command"
           THEN IF found.err # "" THEN failed(found.err) /\ UNCHANGED cmd /\ events' = <<>>
                ELSE IF found.ret = Null
                THEN failed("not found") /\ UNCHANGED cmd /\ events' = <<>>
                ELSE /\ cmd' = running
                     /\ events' = IF force THEN <<>> ELSE << <<"notice", Str(name)>> >>
                     /\ UNCHANGED last
           ELSE IF found.err # "" THEN failed(found.err) /\ UNCHANGED cmd /\ events' = <<>>
                ELSE /\ index # 0
                     /\ cmd' = [running EXCEPT !.pc = "confirm"]
                     /\ events' = << <<"confirm", Str(name)>> >>
                     /\ UNCHANGED last
  /\ UNCHANGED <<started, procs, fs, heap>>

\* the answer to the confirmation the menu asks for
RemoveAnswer(confirm) ==
  /\ cmd.op = "remove" /\ cmd.pc = "confirm"
  /\ IF confirm
     THEN cmd' = [cmd EXCEPT !.pc = "removeInstance", !.confirmed = TRUE] /\ UNCHANGED last
     ELSE RemoveExit("")
  /\ events' = Append(events, <<"answer", IF confirm THEN Str("yes") ELSE Str("no")>>)
  /\ UNCHANGED <<disk, started, procs, fs, heap>>

\* await removeInstance(name)
RemoveRecord ==
  /\ cmd.op = "remove" /\ cmd.pc = "removeInstance"
  /\ \E out \in {removeInstance(disk, cmd.name)} :
     /\ disk' = out.disk
     /\ IF out.err # "" THEN RemoveExit(out.err)
        ELSE cmd' = [cmd EXCEPT !.pc = "removeWrapper"] /\ UNCHANGED last
  /\ events' = Append(events, <<"removeInstance", cmd.name>>)
  /\ UNCHANGED <<started, procs, fs, heap>>

\* removeWrapper(instance.binaryPath), and the report that the instance is
\* removed
RemoveWrapper ==
  /\ cmd.op = "remove" /\ cmd.pc = "removeWrapper"
  /\ fs' = removeWrapper(fs, RemoveTarget(cmd.instance))
  /\ events' = Append(events, <<"removeWrapper", PropGet(cmd.instance, "binaryPath")>>)
  /\ RemoveExit("")
  /\ UNCHANGED <<disk, started, procs, heap>>

\* the registry as the removal meets it
RemoveStores ==
  {[disk |-> NoDisk, kind |-> "absent"],
   [disk |-> OnDisk(JSONstringify(defaultConfig)), kind |-> "empty"]}
  \cup {[disk |-> OnDisk(JSONstringify(Config(instances, "1.0.0"))), kind |-> "registry"] :
          instances \in {<<Instance(AllNames[1], AllVariants[1])>>,
                         <<Instance(AllNames[1], AllVariants[1]),
                           Instance(AllNames[3], AllVariants[2])>>,
                         <<Instance(AllNames[1], AllVariants[2]),
                           Instance(AllNames[1], AllVariants[1])>>}}

\* a launcher of each instance, there or not
LauncherStates(var) ==
  {<<>>, createWrapper(<<>>, Instance(AllNames[1], var)).fs}

\* the configuration directory of an instance: absent or with its files
ConfigDirStates(dir) ==
  {<<>>,
   Tree(dir, "instance", {<<"agents">>},
        {<<"settings.json">>, <<"history.jsonl">>, <<"agents", "own.md">>})}

RemoveNames == {AllNames[1], AllNames[3]}

InitRemove ==
  /\ \E w1 \in LauncherStates(AllVariants[1]), w2 \in LauncherStates(AllVariants[2]),
        x \in ConfigDirStates(DirX), y \in ConfigDirStates(DirY) :
       fs = w1 @@ w2 @@ x @@ y
  /\ \E s \in RemoveStores : disk = s.disk /\ started = s.kind
  /\ last = NoCall
  /\ procs = <<>>
  /\ events = <<>>
  /\ cmd = NoCmd
  /\ heap = <<>>

NextRemove ==
  \/ \E via \in {"command", "menu"}, name \in RemoveNames, force \in BOOLEAN :
       RemoveStart(via, name, force)
  \/ \E confirm \in BOOLEAN : RemoveAnswer(confirm)
  \/ RemoveRecord
  \/ RemoveWrapper

SpecRemove == InitRemove /\ [][NextRemove]_vars

-----------------------------------------------------------------------------
(* The applications of provider templates.  events is the log of the       *)
(* applications: the template's name, the key and the reference returned.  *)

\* createSettingsFromTemplate(targetConfigDir, template, apiKey)
createSettingsFromTemplate(f, h, targetConfigDir, template, apiKey) ==
  LET f1 == IF ~ExistsSync(f, targetConfigDir) THEN Mkdir(f, targetConfigDir) ELSE f
      settings == applyProviderTemplate(h, template, apiKey)
      settingsFile == Join(targetConfigDir, "settings.json")
  IN IF ~ExistsSync(f, targetConfigDir) /\ ~CanMkdir(f, targetConfigDir)
     THEN [fs |-> f, heap |-> h, ret |-> Undefined, err |-> "ENOTDIR"]
     ELSE IF ~CanWrite(f1, settingsFile)
     THEN [fs |-> f1, heap |-> settings.heap, ret |-> settings.ret,
           err |-> CopyFileError(f1, settingsFile)]
     ELSE [fs |-> WriteFile(f1, settingsFile,
                            JSONstringify(Deref(settings.heap, settings.ret))),
           heap |-> settings.heap, ret |-> settings.ret, err |-> ""]

ProviderNames == {"glm", "minimax"}

ApiKeys == {"sk-a", "sk-b"}

\* the template of a name: PROVIDER_TEMPLATES[name]
Template(h, name) == PropGet(At(h, Bundled.val), name)

ApplyProviderTemplate(name, apiKey) ==
  /\ Len(events) < MaxApplications
  /\ LET out == applyProviderTemplate(heap, Template(heap, name), apiKey) IN
     /\ heap' = out.heap
     /\ events' = Append(events, <<name, Str(apiKey), out.ret>>)
     /\ last' = [NoCall EXCEPT !.op = "applyProviderTemplate", !.arg = Str(name),
                               !.ret = out.ret, !.preFs = fs]
  /\ UNCHANGED <<disk, started, procs, fs, cmd>>

CreateSettingsFromTemplate(dir, name, apiKey) ==
  /\ Len(events) < MaxApplications
  /\ LET out == createSettingsFromTemplate(fs, heap, dir, Template(heap, name), apiKey) IN
     /\ heap' = out.heap
     /\ fs' = out.fs
     /\ events' = IF out.ret = Undefined THEN events
                  ELSE Append(events, <<name, Str(apiKey), out.ret>>)
     /\ last' = [NoCall EXCEPT !.op = "createSettingsFromTemplate", !.arg = dir,
                               !.named = Str(name), !.ret = out.ret, !.err = out.err,
                               !.preFs = fs]
  /\ UNCHANGED <<disk, started, procs, cmd>>

\* the directory settings are created in: absent, empty, with a
\* settings.json, with a directory of that name, and a file in its place
SettingsTargets(dir) ==
  {<<>>,
   Tree(dir, "target", {}, {}),
   Tree(dir, "target", {}, {<<"settings.json">>, <<"keep.txt">>}),
   Tree(dir, "target", {<<"settings.json">>}, {}),
   [q \in {dir} |-> FileEntry(Garbage)]}

InitTemplates ==
  /\ fs \in SettingsTargets(DirX)
  /\ disk = NoDisk
  /\ started = "absent"
  /\ last = NoCall
  /\ procs = <<>>
  /\ events = <<>>
  /\ cmd = NoCmd
  /\ heap = Bundled.heap

NextTemplates ==
  \/ \E name \in ProviderNames, apiKey \in ApiKeys : ApplyProviderTemplate(name, apiKey)
  \/ \E name \in ProviderNames, apiKey \in ApiKeys :
       CreateSettingsFromTemplate(DirX, name, apiKey)

SpecTemplates == InitTemplates /\ [][NextTemplates]_vars

-----------------------------------------------------------------------------
(* The launcher scripts and the default paths *)

\* the configuration directory of a new instance: --config, or .claude-<name>
\* in the home directory
configDirFor(config, name) ==
  IF config # <<>> THEN config ELSE HomeDir \o <<"/", ".claude-">> \o name

\* a default launcher named like the configuration directory
binaryPathForDotted(platform, binary, name) ==
  IF binary # <<>> THEN binary ELSE getDefaultBinaryPath(platform, <<".claude-">> \o name)

\* the launcher path of a new instance: --binary, or the default
binaryPathFor(platform, binary, name) ==
  IF binary # <<>> THEN binary ELSE getDefaultBinaryPath(platform, name)

WrapperCall(op, arg, ret) ==
  /\ last' = [NoCall EXCEPT !.op = op, !.arg = arg, !.ret = ret]
  /\ UNCHANGED <<disk, started, procs, events, fs, cmd, heap>>

GenerateWrapperScript(options) ==
  WrapperCall("generateWrapperScript", options, generateWrapperScript(options))

GenerateWindowsWrapperScript(options) ==
  WrapperCall("generateWindowsWrapperScript", options,
              generateWindowsWrapperScript(options))

GetDefaultBinaryPath(platform, name) ==
  WrapperCall("getDefaultBinaryPath", [name |-> name, platform |-> platform],
              getDefaultBinaryPath(platform, name))

\* the paths the add command settles on before it builds the record
ResolvePaths(platform, name, config, binary) ==
  WrapperCall("add",
              [config |-> config, name |-> name, platform |-> platform,
               binary |-> binary],
              [configDir |-> configDirFor(config, name),
               binaryPath |-> binaryPathFor(platform, binary, name)])

Platforms == {"linux", "darwin", "win32"}

\* names: the one of the tests, a provider's, and one the command line
\* takes that ends like a batch file
WrapperNames == {<<"test">>, <<"glm">>, <<"tool", ".cmd">>}

\* configuration directories: well formed for either platform, and not:
\* with a quote, with a blank, relative, empty
WrapperConfigDirs ==
  {<<"/home/user/.claude-test">>, <<"C:\\Users\\user\\.claude-test">>,
   <<"/tmp/a\"b">>, <<"/tmp/my profile">>, <<"profiles/x">>, <<>>}

WrapperBinaryPaths ==
  {<<"/usr/local/bin/claude-test">>,
   <<"C:\\Users\\user\\AppData\\npm\\claude-test.cmd">>}

AllWrapperOptions ==
  [configDir : WrapperConfigDirs, binaryPath : WrapperBinaryPaths, name : WrapperNames]

InitWrapper ==
  /\ fs = <<>>
  /\ disk = NoDisk
  /\ started = "absent"
  /\ last = NoCall
  /\ procs = <<>>
  /\ events = <<>>
  /\ cmd = NoCmd
  /\ heap = <<>>

NextWrapper ==
  \/ \E options \in AllWrapperOptions : GenerateWrapperScript(options)
  \/ \E options \in AllWrapperOptions : GenerateWindowsWrapperScript(options)
  \/ \E platform \in Platforms, name \in WrapperNames :
       GetDefaultBinaryPath(platform, name)
  \/ \E platform \in Platforms, name \in WrapperNames,
        config \in {<<>>, <<"/srv/profiles/y">>},
        binary \in {<<>>, <<"/usr/local/bin/claude-y">>} :
       ResolvePaths(platform, name, config, binary)

SpecWrapper == InitWrapper /\ [][NextWrapper]_vars

-----------------------------------------------------------------------------
(* Vocabulary of the properties *)

\* the store holds a registry: JSON text of an object with an instances array
IsRegistry(d) ==
  d.exists /\ JSONparse(d.text).ok /\ HasInstances(JSONparse(d.text).val)

\* the stored registry and its parts
Stored(d) == JSONparse(d.text).val

StoredInstances(d) == PropGet(Stored(d), "instances").v

StoredVersion(d) == PropGet(Stored(d), "version")

NameOf(inst) == PropGet(inst, "name")

\* the positions of the records called name
Matches(instances, name) == {i \in 1..Len(instances) : NameOf(instances[i]) = name}

DistinctNames(instances) ==
  \A i, j \in 1..Len(instances) : i # j => NameOf(instances[i]) # NameOf(instances[j])

\* the sequence without its k-th element
Without(seq, k) == SubSeq(seq, 1, k - 1) \o SubSeq(seq, k + 1, Len(seq))

SameFields(a, b) ==
  \A f \in {"name", "configDir", "binaryPath", "createdAt"} : PropGet(a, f) = PropGet(b, f)

\* the records the store holds at the start of the last call that are
\* called by that call's name argument
PreMatches(name) ==
  IF IsRegistry(last.pre) THEN Matches(StoredInstances(last.pre), name) ELSE {}

-----------------------------------------------------------------------------
(* Properties *)

\* C1: starting from an absent or empty registry, the stored registry
\* never holds two records of the same name.
C1_UniqueNames ==
  started \in {"absent", "empty"} /\ IsRegistry(disk)
    => DistinctNames(StoredInstances(disk))

\* a duplicate add has just been refused while two records are stored
C1_Witness ==
  /\ started \in {"absent", "empty"}
  /\ last.op = "addInstance" /\ last.err = "already exists"
  /\ IsRegistry(disk) /\ Len(StoredInstances(disk)) >= 2

\* C2: addInstance of an instance whose name is the name of a stored record
\* throws the duplicate-name error, performs no save and leaves the file as
\* it was, byte for byte.
C2_DuplicateRejected ==
  last.op = "addInstance" /\ PreMatches(NameOf(last.arg)) # {}
    => /\ last.err = "already exists"
       /\ last.writes = 0
       /\ disk = last.pre

\* a duplicate whose other fields differ from the stored record's was refused
C2_Witness ==
  /\ last.op = "addInstance" /\ last.err = "already exists"
  /\ \E i \in PreMatches(NameOf(last.arg)) : StoredInstances(last.pre)[i] # last.arg

\* C3: addInstance of an instance whose name no stored record has succeeds,
\* appends it to the stored sequence, and uses one read and one write.
C3_AppendsNew ==
  last.op = "addInstance" /\ IsRegistry(last.pre) /\ PreMatches(NameOf(last.arg)) = {}
    => /\ last.err = ""
       /\ IsRegistry(disk)
       /\ StoredInstances(disk) = Append(StoredInstances(last.pre), last.arg)
       /\ last.reads = 1 /\ last.writes = 1

\* "Work" was added to a registry that holds "work"
C3_Witness ==
  /\ last.op = "addInstance" /\ last.err = ""
  /\ IsRegistry(last.pre)
  /\ NameOf(last.arg) = Str("Work")
  /\ Matches(StoredInstances(last.pre), Str("work")) # {}

\* C4: removeInstance of a stored name returns the first record of that name
\* and stores the sequence without exactly that record, the others in order.
C4_RemoveKeepsOrder ==
  last.op = "removeInstance" /\ PreMatches(last.arg) # {}
    => LET pre == StoredInstances(last.pre)
           k == CHOOSE i \in PreMatches(last.arg) :
                  \A j \in PreMatches(last.arg) : i <= j
       IN /\ last.err = ""
          /\ last.ret = pre[k]
          /\ IsRegistry(disk)
          /\ StoredInstances(disk) = Without(pre, k)

\* the middle one of three records was removed
C4_Witness ==
  /\ last.op = "removeInstance" /\ last.err = ""
  /\ IsRegistry(last.pre) /\ Len(StoredInstances(last.pre)) = 3
  /\ PreMatches(last.arg) = {2}
  /\ Len(StoredInstances(disk)) = 2

\* C5 as claimed: for every state of the store, removeInstance of a name
\* that matches no stored record returns null without error and writes
\* nothing.
C5_AsClaimed ==
  last.op = "removeInstance" /\ PreMatches(last.arg) = {}
    => /\ last.err = "" /\ last.ret = Null
       /\ last.writes = 0
       /\ disk = last.pre

\* C5 amended: when the store holds a registry, removeInstance of a name
\* that matches no record returns null without error and writes nothing;
\* when there is no file it returns null as well, after loadConfig has
\* written the empty default registry (the one write); when the file exists
\* and is not a registry it throws and writes nothing.
C5_RemoveAbsentName ==
  last.op = "removeInstance" /\ PreMatches(last.arg) = {}
    => /\ IsRegistry(last.pre)
            => last.err = "" /\ last.ret = Null /\ last.writes = 0 /\ disk = last.pre
       /\ ~last.pre.exists
            => /\ last.err = "" /\ last.ret = Null /\ last.writes = 1
               /\ disk = OnDisk(JSONstringify(Config(<<>>, "1.0.0")))
       /\ last.pre.exists /\ ~IsRegistry(last.pre)
            => last.err # "" /\ last.writes = 0 /\ disk = last.pre

\* a name was not found among the records of a registry that has some
C5_Witness ==
  /\ last.op = "removeInstance" /\ last.ret = Null /\ last.err = ""
  /\ IsRegistry(last.pre) /\ Len(StoredInstances(last.pre)) >= 1
  /\ PreMatches(last.arg) = {}

\* C6 as claimed: for every state of the store, getInstance returns the
\* matching record or null and leaves the store as it was.
C6_AsClaimed ==
  last.op = "getInstance"
    => /\ last.err = ""
       /\ \/ last.ret = Null /\ PreMatches(last.arg) = {}
          \/ \E i \in PreMatches(last.arg) : last.ret = StoredInstances(last.pre)[i]
       /\ disk = last.pre

\* C6 amended: when the file exists getInstance writes nothing and leaves
\* the store as it was, returning the first record of that name or null if
\* the file holds a registry and throwing otherwise; when there is no file
\* it returns null and the store afterwards holds the empty default
\* registry that loadConfig has written.
C6_GetReadOnly ==
  last.op = "getInstance"
    => /\ last.pre.exists => last.writes = 0 /\ disk = last.pre
       /\ IsRegistry(last.pre)
            => /\ last.err = ""
               /\ IF PreMatches(last.arg) = {} THEN last.ret = Null
                  ELSE \E i \in PreMatches(last.arg) :
                         /\ \A j \in PreMatches(last.arg) : i <= j
                         /\ last.ret = StoredInstances(last.pre)[i]
       /\ last.pre.exists /\ ~IsRegistry(last.pre) => last.err # ""
       /\ ~last.pre.exists
            => /\ last.err = "" /\ last.ret = Null /\ last.writes = 1
               /\ disk = OnDisk(JSONstringify(Config(<<>>, "1.0.0")))

\* a record was found in a file that is not laid out as saveConfig writes it
C6_Witness ==
  /\ last.op = "getInstance" /\ last.err = "" /\ last.ret # Null
  /\ last.pre.text # JSONstringify(Stored(last.pre))

\* C7: when there is no file, loadConfig returns {instances: [], version:
\* "1.0.0"}, has written exactly that document, and a load of the store it
\* leaves returns an equal registry and leaves the store as it is.
C7_LazyCreate ==
  last.op = "loadConfig" /\ ~last.pre.exists
    => /\ last.err = "" /\ last.ret = Config(<<>>, "1.0.0")
       /\ last.writes = 1
       /\ disk.dir /\ disk.exists
       /\ disk.text = JSONstringify(Config(<<>>, "1.0.0"))
       /\ loadConfig(disk).err = ""
       /\ loadConfig(disk).ret = last.ret
       /\ loadConfig(disk).disk = disk

\* a load has created the file, and the directory with it
C7_Witness ==
  last.op = "loadConfig" /\ ~last.pre.dir /\ disk.exists

\* C8: a file that is not valid JSON makes every registry operation throw,
\* and none of them writes: the file stays as it was.
C8_MalformedUntouched ==
  started = "malformed"
    => /\ disk = last.pre
       /\ ~JSONparse(disk.text).ok
       /\ last.op # "none" => last.err = "SyntaxError" /\ last.writes = 0

\* an add has failed on a file cut short
C8_Witness ==
  /\ started = "malformed" /\ last.op = "addInstance" /\ last.err = "SyntaxError"
  /\ Len(disk.text) > 0

\* C9: loadConfig after saveConfig(R) returns R, and saving what loadConfig
\* returned leaves the stored registry as it was.
C9_RoundTrip ==
  /\ last.op = "saveConfig"
       => loadConfig(disk).err = "" /\ loadConfig(disk).ret = last.arg
  /\ last.op = "resaveConfig"
       => /\ JSONparse(disk.text).ok /\ Stored(disk) = last.arg
          /\ last.pre.exists => Stored(disk) = Stored(last.pre)
          /\ IsRegistry(last.pre) => IsRegistry(disk)

\* a registry of an older version with a record was saved over another one
C9_Witness ==
  /\ last.op = "saveConfig"
  /\ PropGet(last.arg, "instances").v # <<>>
  /\ PropGet(last.arg, "version") = Str("0.9.0")
  /\ IsRegistry(last.pre) /\ Stored(last.pre) # last.arg

\* C10: addInstance and removeInstance change no field of a record they
\* keep, nor the version: each record stored afterwards, but the one added,
\* has the name, configDir, binaryPath and createdAt of a record stored
\* before, of the record of that name where names are distinct.
C10_FieldsAndVersionKept ==
  last.op \in {"addInstance", "removeInstance"} /\ IsRegistry(last.pre)
    => LET pre == StoredInstances(last.pre)
           post == StoredInstances(disk)
       IN /\ IsRegistry(disk)
          /\ StoredVersion(disk) = StoredVersion(last.pre)
          /\ \A j \in 1..Len(post) :
               \/ \E i \in 1..Len(pre) : SameFields(pre[i], post[j])
               \/ last.op = "addInstance" /\ j = Len(post) /\ post[j] = last.arg
          /\ DistinctNames(pre)
               => \A i \in 1..Len(pre), j \in 1..Len(post) :
                    NameOf(pre[i]) = NameOf(post[j]) => SameFields(pre[i], post[j])

\* a record was added to a registry whose version is not the current one
C10_Witness ==
  /\ last.op = "addInstance" /\ last.err = ""
  /\ IsRegistry(last.pre) /\ Len(StoredInstances(last.pre)) >= 1
  /\ StoredVersion(last.pre) = Str("0.9.0")

\* the position in events of the step an invocation took, 0 if it did not
EventAt(p, step) ==
  IF \E i \in 1..Len(events) : events[i] = <<p, step>>
  THEN CHOOSE i \in 1..Len(events) : events[i] = <<p, step>>
  ELSE 0

\* p and q are the only invocations, both adds of different names, both
\* are done, both had loaded before either saved, and q saved last
LostUpdateRun(p, q) ==
  /\ p # q
  /\ \A o \in Procs \ {p, q} : procs[o].op = "none"
  /\ procs[p].op = "addInstance" /\ procs[q].op = "addInstance"
  /\ NameOf(procs[p].arg) # NameOf(procs[q].arg)
  /\ procs[p].pc = "done" /\ procs[q].pc = "done"
  /\ EventAt(p, "save") # 0 /\ EventAt(q, "save") # 0
  /\ EventAt(p, "load") < EventAt(q, "save")
  /\ EventAt(q, "load") < EventAt(p, "save")
  /\ EventAt(p, "save") < EventAt(q, "save")

\* C11: when two adds of different names have both loaded before either
\* saves, both return without error and the stored registry is what the
\* one that saved last had loaded plus its own record: the record of the
\* other is gone.
C11_LostUpdate ==
  \A p, q \in Procs :
    LostUpdateRun(p, q)
      => /\ procs[p].err = "" /\ procs[q].err = ""
         /\ IsRegistry(disk)
         /\ StoredInstances(disk)
              = Append(PropGet(procs[q].loaded, "instances").v, procs[q].arg)
         /\ Matches(StoredInstances(disk), NameOf(procs[p].arg)) = {}
         /\ Matches(StoredInstances(disk), NameOf(procs[q].arg)) # {}

\* such a run has happened on a registry that held a record
C11_Witness ==
  \E p, q \in Procs :
    /\ LostUpdateRun(p, q)
    /\ started = "registry"
    /\ Len(StoredInstances(disk)) = 2

-----------------------------------------------------------------------------
(* MCP detection and the copy from the default directory *)

\* the candidate files in the order of the claim
Candidates == <<"settings.json", "mcp.json", "mcp-servers.json", "claude-mcp.json">>

\* the names of the properties of a value
Keys(v) == IF v.k = "obj" THEN {v.v[i][1] : i \in 1..Len(v.v)} ELSE {}

\* the path holds a file that parses
Parses(f, path) ==
  path \in DOMAIN f /\ ~f[path].dir /\ JSONparse(f[path].text).ok

Parsed(f, path) == JSONparse(f[path].text).val

\* candidate i of the directory exists, parses and has an object-valued
\* mcpServers key
Qualifies(f, dir, i) ==
  /\ Parses(f, Join(dir, Candidates[i]))
  /\ "mcpServers" \in Keys(Parsed(f, Join(dir, Candidates[i])))
  /\ PropGet(Parsed(f, Join(dir, Candidates[i])), "mcpServers").k = "obj"

\* the map the first qualifying candidate of the directory holds
FirstMap(f, dir) ==
  LET i == CHOOSE j \in 1..Len(Candidates) :
             /\ Qualifies(f, dir, j)
             /\ \A h \in 1..(j - 1) : ~Qualifies(f, dir, h)
  IN PropGet(Parsed(f, Join(dir, Candidates[i])), "mcpServers")

HasMap(f, dir) ==
  dir \in DOMAIN f /\ \E i \in 1..Len(Candidates) : Qualifies(f, dir, i)

\* the path is in g what it was in f
SameAt(f, g, path) ==
  /\ (path \in DOMAIN f) = (path \in DOMAIN g)
  /\ path \in DOMAIN f => f[path] = g[path]

\* C12: detectMcpConfigurations examines settings.json, mcp.json,
\* mcp-servers.json, claude-mcp.json in this order and returns the
\* mcpServers map of the first that exists, parses and has an object-valued
\* mcpServers key; other candidates are skipped without error; with the
\* directory absent or no candidate qualifying the result is null, never
\* an error.
C12_DetectOrder ==
  last.op = "detectMcpConfigurations"
    => /\ last.err = ""
       /\ IF HasMap(last.preFs, last.arg)
          THEN PropGet(last.ret, "mcpServers") = FirstMap(last.preFs, last.arg)
          ELSE last.ret = Null

\* a detection skipped a malformed settings.json and an mcp.json whose
\* mcpServers is no object, and took mcp-servers.json before claude-mcp.json
C12_Witness ==
  /\ last.op = "detectMcpConfigurations"
  /\ last.arg = DirX
  /\ PropGet(last.ret, "mcpServers") = MapC
  /\ Join(DirX, "settings.json") \in DOMAIN fs
  /\ ~Parses(fs, Join(DirX, "settings.json"))
  /\ Parses(fs, Join(DirX, "mcp.json"))
  /\ Qualifies(fs, DirX, 4)

\* C13: copyMcpServersFromDefault merges with target precedence: with a
\* detectable map in both the default and the target, the map written has
\* the union of both key sets, a key of the target keeping the target's
\* value and every other key taking the default's; with none in the
\* target, the default's map is written unchanged.
C13_TargetPrecedence ==
  (last.op = "copyMcpServersFromDefault" /\ last.written # Undefined)
    => LET default == FirstMap(last.preFs, DefaultDir)
           map == PropGet(last.written, "mcpServers")
       IN IF HasMap(last.preFs, last.arg)
          THEN LET target == FirstMap(last.preFs, last.arg) IN
               /\ Keys(map) = Keys(default) \cup Keys(target)
               /\ \A key \in Keys(target) : PropGet(map, key) = PropGet(target, key)
               /\ \A key \in Keys(default) \ Keys(target) :
                    PropGet(map, key) = PropGet(default, key)
          ELSE map = default

\* the default's {a: X, b: Y} was copied into a target that had {b: Z}, and
\* the target now has {a: X, b: Z}
C13_Witness ==
  /\ last.op = "copyMcpServersFromDefault"
  /\ last.err = ""
  /\ FirstMap(last.preFs, DefaultDir) = MapAB
  /\ HasMap(last.preFs, last.arg)
  /\ FirstMap(last.preFs, last.arg) = MapB
  /\ PropGet(last.written, "mcpServers")
       = Obj(<< <<"a", Server("X")>>, <<"b", Server("Z")>> >>)
  /\ FirstMap(fs, last.arg) = PropGet(last.written, "mcpServers")

\* C14: the write-back of writeMcpConfiguration: with a parseable
\* settings.json in the target only its mcpServers key is replaced by the
\* given map, every other key is kept and no standalone file is written;
\* with settings.json absent or unparseable the map is written to mcp.json
\* and settings.json is left as it was.
C14_WriteBack ==
  (last.op = "copyMcpServersFromDefault" /\ last.err = "")
    => LET settingsFile == Join(last.arg, "settings.json")
           mcpFile == Join(last.arg, "mcp.json")
           map == PropGet(last.written, "mcpServers")
       IN IF Parses(last.preFs, settingsFile)
          THEN /\ Parses(fs, settingsFile)
               /\ PropGet(Parsed(fs, settingsFile), "mcpServers") = map
               /\ Keys(Parsed(fs, settingsFile))
                    = Keys(Parsed(last.preFs, settingsFile)) \cup {"mcpServers"}
               /\ \A key \in Keys(Parsed(last.preFs, settingsFile)) \ {"mcpServers"} :
                    PropGet(Parsed(fs, settingsFile), key)
                      = PropGet(Parsed(last.preFs, settingsFile), key)
               /\ SameAt(last.preFs, fs, mcpFile)
          ELSE /\ Parses(fs, mcpFile)
               /\ PropGet(Parsed(fs, mcpFile), "mcpServers") = map
               /\ SameAt(last.preFs, fs, settingsFile)

\* C15: copyMcpServersFromDefault fails with a not-found error when the
\* default directory has no detectable MCP configuration, and then changes
\* nothing: the target directory is not created and no file is written.
C15_NothingOnNotFound ==
  last.op = "copyMcpServersFromDefault"
    => /\ ~HasMap(last.preFs, DefaultDir)
            <=> last.err = "No MCP configurations found in default Claude"
       /\ ~HasMap(last.preFs, DefaultDir) => fs = last.preFs

\* the copy failed so on a target directory that does not exist, the default
\* directory holding files none of which qualifies
C15_Witness ==
  /\ last.op = "copyMcpServersFromDefault"
  /\ last.err = "No MCP configurations found in default Claude"
  /\ Join(DefaultDir, "settings.json") \in DOMAIN fs
  /\ last.arg \notin DOMAIN fs

-----------------------------------------------------------------------------
(* The copy between instances *)

\* the registry at the start of the last call: its records, none when the
\* file was not there
PreInstances == IF last.pre.exists THEN StoredInstances(last.pre) ELSE <<>>

Registered(name) == Matches(PreInstances, name) # {}

\* the directory of the first record called name
ConfigDirOf(name) ==
  LET i == CHOOSE j \in Matches(PreInstances, name) :
             \A h \in Matches(PreInstances, name) : j <= h
  IN DirOf(PropGet(PreInstances[i], "configDir").v[1])

NotFoundErrors ==
  {"Source instance not found", "Target instance not found",
   "No MCP configurations found in instance"}

\* C16: copyMcpServersBetweenInstances fails with a not-found error naming
\* the source when the source is not registered (also when both are
\* missing), naming the target when only the target is not registered, and
\* with a not-found error when the source instance has no detectable MCP
\* configuration; in each of these cases nothing is written to the
\* target's configuration directory.
C16_NotFound ==
  last.op = "copyMcpServersBetweenInstances"
    => LET source == last.arg[1]
           target == last.arg[2]
       IN /\ ~Registered(source)
               => last.err = "Source instance not found" /\ last.named = source
          /\ Registered(source) /\ ~Registered(target)
               => last.err = "Target instance not found" /\ last.named = target
          /\ Registered(source) /\ Registered(target)
               => (~HasMap(last.preFs, ConfigDirOf(source))
                     <=> last.err = "No MCP configurations found in instance")
          /\ last.err \in NotFoundErrors => fs = last.preFs

\* the copy has failed on a source directory that has files but no MCP
\* configuration, the target directory having one
C16_Witness ==
  /\ last.op = "copyMcpServersBetweenInstances"
  /\ last.err = "No MCP configurations found in instance"
  /\ last.arg[1] # last.arg[2]
  /\ Join(ConfigDirOf(last.arg[1]), "settings.json") \in DOMAIN fs
  /\ HasMap(fs, ConfigDirOf(last.arg[2]))

\* C17: a successful copyMcpServersBetweenInstances never merges: the map
\* written to the target is the source's detected map, so what
\* detectMcpConfigurations returns on the target afterwards is that map: a
\* name only the target had is gone, a name both had carries the source's
\* value.
C17_NoMerge ==
  (last.op = "copyMcpServersBetweenInstances" /\ last.err = "")
    => LET detected == FirstMap(last.preFs, ConfigDirOf(last.arg[1]))
           after == detectMcpConfigurations(fs, ConfigDirOf(last.arg[2]))
       IN /\ PropGet(last.written, "mcpServers") = detected
          /\ after # Null
          /\ PropGet(after, "mcpServers") = detected

-----------------------------------------------------------------------------
(* The copies from the default directory *)

\* the path lies below the directory
Below(path, dir) ==
  Len(path) > Len(dir) /\ SubSeq(path, 1, Len(dir)) = dir

\* the path as seen from the directory it lies below
Rel(path, dir) == SubSeq(path, Len(dir) + 1, Len(path))

\* the directories mkdir makes for the path
Prefixes(path) == {SubSeq(path, 1, n) : n \in 1..Len(path)}

Denylisted(name) == \E i \in 1..Len(excludeFiles) : excludeFiles[i] = name

\* no name on the path is on the denylist
Allowed(path) == \A i \in 1..Len(path) : ~Denylisted(path[i])

\* C18: copySettingsFromDefault copies exactly one file, settings.json,
\* from the default directory into the target, creating the target
\* directory recursively if absent, and touches no other file; if the
\* default directory lacks settings.json it fails with a source-not-found
\* error before creating the target directory or writing anything.
C18_SettingsOnly ==
  (last.op = "copySettingsFromDefault" /\ cmd = NoCmd)
    => LET sourceSettings == Join(DefaultDir, "settings.json")
           targetSettings == Join(last.arg, "settings.json")
       IN /\ sourceSettings \notin DOMAIN last.preFs
               <=> last.err = "Default Claude settings.json not found"
          /\ sourceSettings \notin DOMAIN last.preFs => fs = last.preFs
          /\ last.err = ""
               => /\ fs[targetSettings] = last.preFs[sourceSettings]
                  /\ DOMAIN fs = DOMAIN last.preFs \cup Prefixes(last.arg)
                                   \cup {targetSettings}
                  /\ \A dir \in Prefixes(last.arg) : fs[dir].dir
                  /\ \A path \in DOMAIN last.preFs \ {targetSettings} :
                       fs[path] = last.preFs[path]

\* settings.json has been copied into a directory that was not there, two
\* levels below one that was not there, from a default directory that holds
\* other files as well
C18_Witness ==
  /\ last.op = "copySettingsFromDefault"
  /\ cmd = NoCmd
  /\ last.err = ""
  /\ last.arg = DirDeep
  /\ Prefixes(DirDeep) \cap DOMAIN last.preFs = {}
  /\ Join(DefaultDir, "history.jsonl") \in DOMAIN fs
  /\ Join(Join(DefaultDir, "agents"), "reviewer.md") \in DOMAIN fs

\* the copyAllFromDefault the log of events belongs to, and the file system
\* at its start
CopyAllRunning == cmd.op = "copyAllFromDefault"

CopyAllDone == cmd = NoCmd /\ last.op = "copyAllFromDefault"

CopyAllPreFs == IF CopyAllRunning THEN cmd.preFs ELSE last.preFs

\* C19: copyAllFromDefault copies into the target every file and directory
\* of the default tree whose path contains no denylisted name, and copies
\* no entry whose own name or an ancestor's name below the default root is
\* denylisted, at every depth; each directory is created in the target
\* before any of its children is copied; it fails with a source-not-found
\* error if the default directory does not exist.
C19_CopyAll ==
  /\ CopyAllDone
       => /\ DefaultDir \notin DOMAIN last.preFs
               <=> last.err = "Default Claude directory not found"
          /\ DefaultDir \notin DOMAIN last.preFs => fs = last.preFs
          /\ last.err = ""
               => \A path \in DOMAIN last.preFs :
                    Below(path, DefaultDir)
                      => LET copy == last.arg \o Rel(path, DefaultDir) IN
                         IF Allowed(Rel(path, DefaultDir))
                         THEN copy \in DOMAIN fs /\ fs[copy] = last.preFs[path]
                         ELSE SameAt(last.preFs, fs, copy)
  /\ CopyAllRunning \/ CopyAllDone
       => \A i \in 1..Len(events) :
            LET path == events[i][2]
                parent == SubSeq(path, 1, Len(path) - 1)
                target == IF CopyAllRunning THEN cmd.arg ELSE last.arg
            IN /\ Below(path, target) => Allowed(Rel(path, target))
               /\ Len(path) > 1
                    => \/ parent \in DOMAIN CopyAllPreFs /\ CopyAllPreFs[parent].dir
                       \/ \E j \in 1..i :
                            events[j][1] = "mkdir" /\ parent \in Prefixes(events[j][2])

\* a copy has ended well into a directory that had files of its own, from
\* a default tree with excluded names at the top and one level down: the
\* ordinary file one level down is the default's, the excluded ones have
\* no copy, and the target's own files are as they were
C19_Witness ==
  /\ CopyAllDone
  /\ last.err = ""
  /\ last.arg = DirX
  /\ Join(DirX, "keep.txt") \in DOMAIN last.preFs
  /\ Join(Join(Join(DefaultDir, "agents"), "todos"), "1.json") \in DOMAIN fs
  /\ Join(Join(DirX, "agents"), "todos") \notin DOMAIN fs
  /\ Join(Join(DirX, "agents"), "config.json") \notin DOMAIN fs
  /\ fs[Join(Join(DirX, "agents"), "reviewer.md")]
       = fs[Join(Join(DefaultDir, "agents"), "reviewer.md")]
  /\ fs[Join(DirX, "history.jsonl")] = last.preFs[Join(DirX, "history.jsonl")]
  /\ fs[Join(DirX, "history.jsonl")] # fs[Join(DefaultDir, "history.jsonl")]

-----------------------------------------------------------------------------
(* The order of the calls of the add command *)

\* the calls of the log that are calls of the add command
IsAddCall(e) ==
  e[1] \in {"addInstance", "createWrapper", "copySettingsFromDefault",
            "copyMcpServersFromDefault", "copyAllFromDefault"}

IsCopy(e) ==
  e[1] \in {"copySettingsFromDefault", "copyMcpServersFromDefault",
            "copyAllFromDefault"}

\* an add command is running or was the last to end
Adding == cmd.op = "add" \/ (cmd = NoCmd /\ last.op = "add")

AddedInstance == IF cmd.op = "add" THEN cmd.instance ELSE last.arg

\* C20 as claimed: the record is written to the backing store after the
\* wrapper is generated and after the optional copy.
C20_AsClaimed ==
  Adding
    => \A i \in 1..Len(events) :
         events[i][1] = "addInstance"
           => /\ \E j \in 1..(i - 1) : events[j][1] = "createWrapper"
              /\ \A j \in 1..Len(events) : IsCopy(events[j]) => j < i

\* C20: the add command stores the new record first: addInstance, which
\* validates the record and writes the registry, is the first call; then
\* the wrapper is generated; then the optional copies run, settings, MCP
\* servers, all files; once addInstance has returned the backing store
\* holds the record and no later call writes it.
C20_PersistFirst ==
  Adding
    => /\ \A i \in 1..Len(events) :
            events[i][1] = "createWrapper"
              => /\ i = 2 /\ events[1][1] = "addInstance"
                 /\ \A j \in 1..Len(events) : IsCopy(events[j]) => i < j
       /\ \A i, j \in 1..Len(events) :
            (i < j /\ IsCopy(events[i]) /\ IsCopy(events[j]))
              => /\ events[i][1] = "copySettingsFromDefault"
                 /\ events[j][1] = "copyMcpServersFromDefault"
       /\ \A i \in 1..Len(events) : IsCopy(events[i]) => events[2][1] = "createWrapper"
       /\ Len(events) >= 2
            => /\ disk = events[1][2]
               /\ IsRegistry(disk)
               /\ Matches(StoredInstances(disk), NameOf(AddedInstance)) # {}
               /\ StoredInstances(disk)[Len(StoredInstances(disk))] = AddedInstance

\* a command has ended well that stored the record of a new name in a
\* registry that held another, generated the wrapper and copied settings
\* and MCP servers
C20_Witness ==
  /\ cmd = NoCmd
  /\ last.op = "add"
  /\ last.err = ""
  /\ Len(events) = 4
  /\ events[3][1] = "copySettingsFromDefault"
  /\ events[4][1] = "copyMcpServersFromDefault"
  /\ WrapperPath(last.arg) \in DOMAIN fs
  /\ Len(StoredInstances(last.pre)) = 1
  /\ Len(StoredInstances(disk)) = 2

-----------------------------------------------------------------------------
(* The removal of an instance *)

\* a removal is under way or was the last thing done
Removing == cmd.op = "remove" \/ (cmd = NoCmd /\ last.op = "remove")

RemovePre == IF cmd.op = "remove" THEN cmd.pre ELSE last.pre

RemovePreFs == IF cmd.op = "remove" THEN cmd.preFs ELSE last.preFs

RemovedInstance == IF cmd.op = "remove" THEN cmd.instance ELSE last.arg

RemovedName == IF cmd.op = "remove" THEN cmd.name ELSE last.named

\* the removal was started without --force: it printed its notice or asked
AskedFirst == Len(events) > 0 /\ events[1][1] \in {"notice", "confirm"}

\* the user has answered yes
Confirmed == \E i \in 1..Len(events) : events[i] = <<"answer", Str("yes")>>

InstancesOf(d) == IF IsRegistry(d) THEN StoredInstances(d) ELSE <<>>

\* C21: a removal started without --force neither removes the record from
\* the registry nor deletes the wrapper before the user has confirmed.
C21_ConfirmFirst ==
  (Removing /\ AskedFirst /\ ~Confirmed) =>
     /\ InstancesOf(disk) = InstancesOf(RemovePre)
     /\ fs = RemovePreFs

\* C22: a removal, by the command or from the menu, takes at most the first
\* record of the name out of the registry and deletes at most the file at
\* that record's binaryPath; every other path, the configuration directory
\* of the instance and what it holds among them, is there as it was.
C22_OnlyRecordAndWrapper ==
  Removing =>
     /\ \A q \in DOMAIN RemovePreFs \cup DOMAIN fs :
          (RemovedInstance = Undefined \/ q # WrapperPath(RemovedInstance)) =>
             q \in DOMAIN fs /\ q \in DOMAIN RemovePreFs /\ fs[q] = RemovePreFs[q]
     /\ \/ InstancesOf(disk) = InstancesOf(RemovePre)
        \/ /\ Matches(InstancesOf(RemovePre), RemovedName) # {}
           /\ LET first == CHOOSE i \in Matches(InstancesOf(RemovePre), RemovedName) :
                             \A j \in Matches(InstancesOf(RemovePre), RemovedName) : i <= j
              IN /\ InstancesOf(disk) = Without(InstancesOf(RemovePre), first)
                 /\ InstancesOf(RemovePre)[first] = RemovedInstance
     /\ IsRegistry(RemovePre) => StoredVersion(disk) = StoredVersion(RemovePre)

\* a removal that took the record and the launcher away and left the files
\* of the configuration directory
C22_Witness ==
  /\ cmd = NoCmd /\ last.op = "remove" /\ last.err = ""
  /\ Len(InstancesOf(disk)) < Len(InstancesOf(last.pre))
  /\ WrapperPath(last.arg) \in DOMAIN last.preFs
  /\ WrapperPath(last.arg) \notin DOMAIN fs
  /\ Join(DirOf(PropGet(last.arg, "configDir").v[1]), "settings.json") \in DOMAIN fs

-----------------------------------------------------------------------------
(* The add command: flags, names that are taken, copies that fail *)

CopyNames ==
  {"copySettingsFromDefault", "copyMcpServersFromDefault", "copyAllFromDefault"}

\* the flags C23 speaks of and the copies it gives them
FlagsCovered(given) ==
  \/ "--copy-all" \in given
  \/ "--copy-settings" \in given
  \/ given = {"--copy-mcp"}
  \/ given = {"--skip-prompts"}

CopiesFor(given) ==
  IF "--copy-all" \in given THEN {"copyAllFromDefault"}
  ELSE IF "--copy-settings" \in given THEN {"copySettingsFromDefault"}
  ELSE IF given = {"--copy-mcp"} THEN {"copyMcpServersFromDefault"}
  ELSE {}

\* the calls a step adds to the log
NewCalls == {events'[i][1] : i \in (Len(events) + 1)..Len(events')}

\* C23: an add command given flags shows no prompt, and its steps invoke
\* the copies the flags name and no other: with --copy-all the copy of all
\* files only, with --copy-settings (and no --copy-all) the copy of the
\* settings only, with --copy-mcp alone the MCP copy only, with
\* --skip-prompts alone none.
C23_FlagsDecide ==
  [][(cmd.op = "add" /\ cmd.mode.flags # {} /\ FlagsCovered(cmd.mode.flags))
       => /\ ~cmd.prompted
          /\ NewCalls \cap CopyNames \subseteq CopiesFor(cmd.mode.flags)
          /\ (cmd.pc = "step" /\ cmd.pos <= Len(AddSteps)
              /\ AddSteps[cmd.pos] \in CopiesFor(cmd.mode.flags))
               => AddSteps[cmd.pos] \in NewCalls]_vars

\* a command given --copy-settings and --copy-mcp has ended well after the
\* copy of the settings and no other copy
C23_Witness ==
  /\ cmd.op = "add" /\ cmd.pos > Len(AddSteps)
  /\ cmd.mode.flags = {"--copy-settings", "--copy-mcp"}
  /\ hasDefaultMcpConfig(fs)
  /\ {events[i][1] : i \in 1..Len(events)} \cap CopyNames = {"copySettingsFromDefault"}

-----------------------------------------------------------------------------
(* The provider templates *)

\* the settings of a bundled template with the key as its token
SettingsWithKey(name, apiKey) ==
  LET settings == PropGet(PropGet(PROVIDER_TEMPLATES, name), "settings")
  IN PropSet(settings, "env",
             PropSet(PropGet(settings, "env"), "ANTHROPIC_AUTH_TOKEN", apiKey))

\* C24: what applyProviderTemplate returned is a deep clone of the
\* template's settings with the key as env.ANTHROPIC_AUTH_TOKEN and every
\* other entry as in the template: it shares no object with the templates
\* or with another result.  The bundled templates are as the module wrote
\* them, the token empty, after any applications, and every earlier result
\* still holds its own key.
C24_DeepClone ==
  /\ Deref(heap, Bundled.val) = PROVIDER_TEMPLATES
  /\ \A name \in ProviderNames :
       PropGet(PropGet(PropGet(Deref(heap, Template(heap, name)), "settings"), "env"),
               "ANTHROPIC_AUTH_TOKEN") = Str("")
  /\ \A i \in 1..Len(events) :
       /\ Deref(heap, events[i][3]) = SettingsWithKey(events[i][1], events[i][2])
       /\ Reach(heap, events[i][3]) \cap Reach(heap, Bundled.val) = {}
       /\ \A j \in 1..Len(events) :
            i # j => Reach(heap, events[i][3]) \cap Reach(heap, events[j][3]) = {}

\* two applications of one template with different keys
C24_Witness ==
  /\ Len(events) >= 2
  /\ events[1][1] = events[2][1]
  /\ events[1][2] # events[2][2]
  /\ last.op = "applyProviderTemplate"

-----------------------------------------------------------------------------
(* The launcher scripts and the default paths *)

\* part occurs in text
Contains(text, part) ==
  \E i \in 0..(Len(text) - Len(part)) : SubSeq(text, i + 1, i + Len(part)) = part

StartsWith(text, part) ==
  Len(part) <= Len(text) /\ SubSeq(text, 1, Len(part)) = part

EndsWith(text, part) ==
  Len(part) <= Len(text)
    /\ SubSeq(text, Len(text) - Len(part) + 1, Len(text)) = part

\* C25: whatever the configDir, a script is generated and holds the
\* configDir as given as the value of CLAUDE_CONFIG_DIR: the POSIX script
\* starts with the interpreter directive and contains
\* process.env.CLAUDE_CONFIG_DIR = "<configDir>"; the Windows script
\* contains @echo off, set "CLAUDE_CONFIG_DIR=<configDir>" and %*.
C25_Literal ==
  /\ last.op = "generateWrapperScript"
       => /\ last.err = ""
          /\ StartsWith(last.ret, <<"#!/usr/bin/env node">>)
          /\ Contains(last.ret, <<"process.env.CLAUDE_CONFIG_DIR = \"">>
                                \o last.arg.configDir \o <<"\"">>)
  /\ last.op = "generateWindowsWrapperScript"
       => /\ last.err = ""
          /\ Contains(last.ret, <<"@echo off">>)
          /\ Contains(last.ret, <<"set \"CLAUDE_CONFIG_DIR=">>
                                \o last.arg.configDir \o <<"\"">>)
          /\ Contains(last.ret, <<"%*">>)

\* a POSIX script generated for a configDir with a quote in it
C25_Witness ==
  /\ last.op = "generateWrapperScript"
  /\ last.arg.configDir = <<"/tmp/a\"b">>
  /\ Contains(last.ret, <<"/tmp/a\"b">>)

\* the default launcher path the last call derived, if it derived one
DerivedDefault ==
  \/ last.op = "getDefaultBinaryPath"
  \/ last.op = "add" /\ last.arg.binary = <<>>

DerivedPath == IF last.op = "add" THEN last.ret.binaryPath ELSE last.ret

-----------------------------------------------------------------------------
(* Concurrent invocations and the names in the registry *)

\* C27: however the loads and saves of concurrent addInstance and
\* removeInstance calls interleave on a registry whose names are distinct,
\* every registry the store holds has pairwise distinct names, also when
\* two adds of one name both return without error.
C27_DistinctNames ==
  IsRegistry(disk) => DistinctNames(StoredInstances(disk))

\* two adds of one name have both loaded, saved and returned without error
C27_Witness ==
  \E p, q \in Procs :
    /\ p # q
    /\ IsRegistry(disk)
    /\ procs[p].op = "addInstance" /\ procs[q].op = "addInstance"
    /\ procs[p].arg = procs[q].arg
    /\ procs[p].pc = "done" /\ procs[q].pc = "done"
    /\ procs[p].err = "" /\ procs[q].err = ""
    /\ started = "registry"
    /\ Cardinality(Matches(StoredInstances(disk), NameOf(procs[p].arg))) = 1

-----------------------------------------------------------------------------
(* The add command: a name that is taken, and copies that fail *)

AddPre == IF cmd.op = "add" THEN cmd.pre ELSE last.pre

AddPreFs == IF cmd.op = "add" THEN cmd.preFs ELSE last.preFs

AddEnded == cmd = NoCmd /\ last.op = "add"

\* the name of the add was registered when the add began
NameTaken == Matches(InstancesOf(AddPre), NameOf(AddedInstance)) # {}

\* the launcher of the added instance is on disk as createWrapper wrote it
WrapperOnDisk ==
  /\ WrapperPath(AddedInstance) \in DOMAIN fs
  /\ fs[WrapperPath(AddedInstance)].text
       = ScriptText(generateWrapperScript(WrapperOptions(AddedInstance)))

\* C28: an add, by the command or from the menu, of a name that is
\* registered ends with the error that the instance already exists; it
\* calls neither createWrapper nor a copy, and the files, the launcher and
\* the configuration directory of the registered instance among them, and
\* the registry are as they were.
C28_DuplicateStops ==
  (Adding /\ NameTaken)
    => /\ fs = AddPreFs
       /\ disk = AddPre
       /\ \A i \in 1..Len(events) : events[i][1] \notin {"createWrapper"} \cup CopyNames
       /\ AddEnded => last.err = "already exists"

\* the command was given the name of an instance that has its launcher and
\* its configuration directory, and has ended after addInstance refused
C28_Witness ==
  /\ AddEnded /\ NameTaken
  /\ Len(events) = 1 /\ events[1][1] = "addInstance"
  /\ WrapperPath(last.arg) \in DOMAIN fs
  /\ Join(DirX, "keep.txt") \in DOMAIN fs

\* the calls of the log that are copies
CopyCalls == SelectSeq(events, IsCopy)

\* the command has ended with the error of its copy of the settings or of
\* all files
FailedLate ==
  /\ AddEnded /\ last.err # ""
  /\ CopyCalls # <<>>
  /\ CopyCalls[Len(CopyCalls)][1] \in {"copySettingsFromDefault", "copyAllFromDefault"}

Warned == \E i \in 1..Len(events) : events[i][1] = "warning"

\* C29: nothing is taken back when a copy fails.  A command that ends with
\* the error of the copy of the settings or of all files, after addInstance
\* and createWrapper, leaves the record in the registry and the launcher on
\* disk; an error of the MCP copy never ends the command: it is a warning,
\* and the command ends without error, the record and the launcher there.
C29_NoRollback ==
  Adding
    => /\ FailedLate
            => /\ events[1][1] = "addInstance" /\ events[2][1] = "createWrapper"
               /\ Matches(InstancesOf(disk), NameOf(AddedInstance)) # {}
               /\ WrapperOnDisk
       /\ (AddEnded /\ last.err # "" /\ CopyCalls # <<>>)
            => CopyCalls[Len(CopyCalls)][1] # "copyMcpServersFromDefault"
       /\ (AddEnded /\ Warned)
            => /\ last.err = ""
               /\ Matches(InstancesOf(disk), NameOf(AddedInstance)) # {}
               /\ WrapperOnDisk

\* a command given --copy-all has stored the record of a new name and
\* written the launcher, and has ended with the error of the copy
C29_Witness ==
  /\ FailedLate
  /\ CopyCalls[Len(CopyCalls)][1] = "copyAllFromDefault"
  /\ Matches(InstancesOf(last.pre), NameOf(last.arg)) = {}
  /\ Matches(InstancesOf(disk), NameOf(last.arg)) # {}
  /\ WrapperOnDisk

-----------------------------------------------------------------------------
(* The copy from the default directory, repeated *)

\* the map detectMcpConfigurations returns for the directory, null if it
\* returns none
DetectedMap(f, dir) ==
  IF detectMcpConfigurations(f, dir) = Null THEN Null
  ELSE PropGet(detectMcpConfigurations(f, dir), "mcpServers")

\* settings.json of the directory is absent, does not parse or is a JSON
\* object
TargetCovered(f, dir) ==
  \/ Join(dir, "settings.json") \notin DOMAIN f
  \/ ~Parses(f, Join(dir, "settings.json"))
  \/ Parsed(f, Join(dir, "settings.json")).k = "obj"

\* map has the keys of both, a key of the target with the target's value
IsMerge(map, default, target) ==
  /\ Keys(map) = Keys(default) \cup Keys(target)
  /\ \A key \in Keys(target) : PropGet(map, key) = PropGet(target, key)
  /\ \A key \in Keys(default) \ Keys(target) : PropGet(map, key) = PropGet(default, key)

CopiedFromDefault(call) == call.op = "copyMcpServersFromDefault" /\ call.err = ""

\* C30: a successful copyMcpServersFromDefault into a target whose
\* settings.json was absent, unparseable or a JSON object makes
\* detectMcpConfigurations of the target return the merge of the default's
\* map and the map the target had, the target's values winning; and a
\* successful call that follows such a call, the default directory being
\* the same, leaves the detected map of the target as it is.
C30_Idempotent ==
  [][CopiedFromDefault(last')
       => /\ TargetCovered(fs, last'.arg)
               => IsMerge(DetectedMap(fs', last'.arg),
                          FirstMap(fs, DefaultDir),
                          IF HasMap(fs, last'.arg) THEN FirstMap(fs, last'.arg)
                          ELSE EmptyMap)
          /\ (CopiedFromDefault(last) /\ last.arg = last'.arg
              /\ TargetCovered(last.preFs, last.arg))
               => DetectedMap(fs', last'.arg) = DetectedMap(fs, last'.arg)]_vars

\* a second copy has found the target holding the merge {a: X, b: Z} of the
\* default's map and the one it had, and has left it so
C30_Witness ==
  /\ CopiedFromDefault(last)
  /\ TargetCovered(last.preFs, last.arg)
  /\ FirstMap(fs, DefaultDir) = MapAB
  /\ DetectedMap(last.preFs, last.arg)
       = Obj(<< <<"a", Server("X")>>, <<"b", Server("Z")>> >>)
  /\ DetectedMap(fs, last.arg) = DetectedMap(last.preFs, last.arg)

====
